---------------------------- MODULE Spec2Model ----------------------------
(***************************************************************************)
(* POP-SORTE admin dashboard: the reconciliation and winner-determination *)
(* engine (RechargeValidator, WinnerCalculator and the DataFetcher cache). *)
(*                                                                         *)
(* Conventions of the model                                                *)
(*  - A JavaScript Date is the number of minutes since 2025-01-01 00:00    *)
(*    in Brazil time (UTC-3, no daylight saving); an absent or Invalid     *)
(*    Date is InvalidDate.                                                 *)
(*  - Date getters without a time zone (getHours, getDate, getMonth,       *)
(*    getDay, setHours, setDate) work in the time zone of the host; tz is  *)
(*    the host's offset from Brazil time in hours.                         *)
(*  - A date string is a record [order, sep, y, m, d, pad]: the order of   *)
(*    its three parts, the separator, the numbers, and whether month and   *)
(*    day are written with two digits.                                     *)
(*  - A JavaScript Number that results from a division is an IEEE-754      *)
(*    double, kept as [zero, exp, sig] with a 53-bit significand.          *)
(***************************************************************************)
EXTENDS Integers, Sequences, FiniteSets, TLC

VARIABLES
    tz,             \* host time zone: local time = Brazil time + tz hours
    entries,        \* the ticket snapshot (entry records, in sheet order)
    recharges,      \* the recharge snapshot
    results,        \* the draw results snapshot
    platform,       \* the scope / platform key of the computation
    cache,          \* DataFetcher's cache object
    vrun,           \* the validateAllTickets invocation in flight
    wrun,           \* the calculateAllWinners invocation in flight
    score,          \* a countMatches call: its arguments and its result
    vother,         \* a second validateAllTickets invocation in flight
    cachedFrom,     \* history: the snapshot the winners cache was computed from
    draw,           \* a draw-calendar call: its argument and its result
    currentData,    \* the page's currentData: the entries shown and their validation
    query           \* a query of the winners (getTopWinners, ...) and its return

vars == <<tz, entries, recharges, results, platform, cache, vrun, wrun, score,
          vother, cachedFrom, draw, currentData, query>>

NULL == "null"

-----------------------------------------------------------------------------
(* Sequence helpers (Array.prototype.filter / map / sort)                  *)

RECURSIVE SelectIdx(_, _, _)
\* the indices i of 1..n, ascending, that satisfy Keep[i]
SelectIdx(Keep, i, n) ==
    IF i > n THEN <<>>
    ELSE IF Keep[i] THEN <<i>> \o SelectIdx(Keep, i + 1, n)
         ELSE SelectIdx(Keep, i + 1, n)

Range(s) == {s[i] : i \in 1..Len(s)}

\* the element of a one-element set.  A value that the code computes once
\* and reads several times (const x = e; ...) is written
\* The({... x ... : x \in {e}}), which evaluates e once.
The(S) == CHOOSE x \in S : TRUE

RECURSIVE InsertSorted(_, _)
\* s holds <<key, element>> pairs by descending key; x goes after every
\* pair whose key is not smaller, which keeps the sort stable
InsertSorted(s, x) ==
    IF s = <<>> THEN <<x>>
    ELSE IF x[1] > Head(s)[1] THEN <<x>> \o s
         ELSE <<Head(s)>> \o InsertSorted(Tail(s), x)

RECURSIVE SortPairs(_)
SortPairs(pairs) ==
    IF pairs = <<>> THEN <<>>
    ELSE InsertSorted(SortPairs(SubSeq(pairs, 1, Len(pairs) - 1)), pairs[Len(pairs)])

\* Array.prototype.sort((a, b) => key(b) - key(a)), stable since ES2019;
\* keys[i] is the key of s[i]
SortDescending(s, keys) ==
    LET sorted == SortPairs([i \in 1..Len(s) |-> <<keys[i], s[i]>>])
    IN  [i \in 1..Len(s) |-> sorted[i][2]]

\* Array.prototype.sort((a, b) => key(a) - key(b))
SortAscending(s, keys) == SortDescending(s, [i \in 1..Len(s) |-> 0 - keys[i]])

-----------------------------------------------------------------------------
(* Calendar: what the Date getters return                                  *)

InvalidDate == -1
RangeError == -2        \* getNextValidDrawDate threw

MinutesPerHour == 60
MinutesPerDay == 1440
EpochYear == 2025
EpochWeekday == 3       \* 2025-01-01 is a Wednesday (getDay() = 3)

IsLeapYear(y) == (y % 4 = 0 /\ y % 100 # 0) \/ y % 400 = 0
DaysInYear(y) == IF IsLeapYear(y) THEN 366 ELSE 365
DaysInMonth(y, m) ==        \* m is 0-indexed as in getMonth()
    IF m = 1 THEN (IF IsLeapYear(y) THEN 29 ELSE 28)
    ELSE IF m \in {3, 5, 8, 10} THEN 30 ELSE 31

RECURSIVE YearFrom(_, _)
YearFrom(y, n) ==
    IF n < DaysInYear(y) THEN [y |-> y, n |-> n] ELSE YearFrom(y + 1, n - DaysInYear(y))

RECURSIVE MonthFrom(_, _, _)
MonthFrom(y, m, n) ==
    IF n < DaysInMonth(y, m) THEN [m |-> m, d |-> n + 1]
    ELSE MonthFrom(y, m + 1, n - DaysInMonth(y, m))

\* the calendar date of day number n (day 0 = 2025-01-01)
DateOfDay(n) ==
    LET yy == YearFrom(EpochYear, n)
        md == MonthFrom(yy.y, 0, yy.n)
    IN  [y |-> yy.y, m |-> md.m, d |-> md.d]

\* the same, tabulated for the days of 2025 and 2026
CalendarTable == [n \in 0..(2 * 365 - 1) |-> DateOfDay(n)]
CalendarDate(n) == CalendarTable[n]

RECURSIVE DaysBeforeYear(_)
DaysBeforeYear(y) == IF y <= EpochYear THEN 0 ELSE DaysInYear(y - 1) + DaysBeforeYear(y - 1)

RECURSIVE DaysBeforeMonth(_, _)
DaysBeforeMonth(y, m) == IF m = 0 THEN 0 ELSE DaysInMonth(y, m - 1) + DaysBeforeMonth(y, m - 1)

\* the day number of a calendar date (month 1..12)
DayNumber(y, month, d) == DaysBeforeYear(y) + DaysBeforeMonth(y, month - 1) + (d - 1)

\* the instant of a Brazil wall-clock time
At(y, month, d, hh, mm) == DayNumber(y, month, d) * MinutesPerDay + hh * MinutesPerHour + mm

\* host-local getters of a Date
LocalMinutes(date) == date + tz * MinutesPerHour
LocalDay(date) == LocalMinutes(date) \div MinutesPerDay
getMonth(date) == CalendarDate(LocalDay(date)).m
getDate(date) == CalendarDate(LocalDay(date)).d
getDay(date) == (EpochWeekday + LocalDay(date)) % 7
getHours(date) == (LocalMinutes(date) \div MinutesPerHour) % 24
getMinutes(date) == LocalMinutes(date) % MinutesPerHour
\* the instant of host-local midnight of host-local day n
LocalMidnight(n) == n * MinutesPerDay - tz * MinutesPerHour

IsValidDate(date) == date # InvalidDate /\ date # RangeError

-----------------------------------------------------------------------------
(* Date strings                                                            *)

EmptyString == [order |-> "", sep |-> "", y |-> 0, m |-> 0, d |-> 0, pad |-> TRUE]

\* two digits are written for month and day whenever both are above 9
DateString(order, sep, y, m, d, pad) ==
    [order |-> order, sep |-> sep, y |-> y, m |-> m, d |-> d,
     pad |-> (pad \/ (m > 9 /\ d > 9))]

\* AdminCore.getBrazilDateString: YYYY-MM-DD of the instant in Brazil time
getBrazilDateString(date) ==
    IF ~IsValidDate(date) THEN EmptyString
    ELSE LET c == CalendarDate(date \div MinutesPerDay)
         IN  DateString("YMD", "-", c.y, c.m + 1, c.d, TRUE)

\* new Date(`${dateStr}T00:00:00-03:00`): Brazil midnight of the day
BrazilMidnight(date) == (date \div MinutesPerDay) * MinutesPerDay


-----------------------------------------------------------------------------
(* Draw calendar helpers (RechargeValidator)                               *)

DEFAULT_CUTOFF_HOUR == 20
EARLY_CUTOFF_HOUR == 16
SearchHorizon == 14     \* getNextValidDrawDate probes at most 14 days

\* a calendar that knows the Sundays and forgets the holidays
isNoDrawDay_SundaysOnly(date) == getDay(date) = 0

isNoDrawDay(date) ==
    \/ getDay(date) = 0
    \/ (getMonth(date) = 11 /\ getDate(date) = 25)
    \/ (getMonth(date) = 0 /\ getDate(date) = 1)

isEarlyCutoffDay(date) ==
    getMonth(date) = 11 /\ (getDate(date) = 24 \/ getDate(date) = 31)

getCutoffHour(date) ==
    IF isEarlyCutoffDay(date) THEN EARLY_CUTOFF_HOUR ELSE DEFAULT_CUTOFF_HOUR

RECURSIVE ProbeDrawDate(_, _)
\* the for loop of getNextValidDrawDate, at iteration i with probe on local day n
ProbeDrawDate(n, i) ==
    IF i >= SearchHorizon THEN RangeError
    ELSE IF ~isNoDrawDay(LocalMidnight(n)) THEN LocalMidnight(n)
         ELSE ProbeDrawDate(n + 1, i + 1)

\* probe = new Date(fromDate); probe.setHours(0, 0, 0, 0); then the loop
getNextValidDrawDate(fromDate) == ProbeDrawDate(LocalDay(fromDate), 0)

getEligibleDrawDate(registrationTime) ==
    IF ~IsValidDate(registrationTime) THEN InvalidDate
    ELSE LET regDate == BrazilMidnight(registrationTime)
             regHour == getHours(registrationTime)
             cutoffHour == getCutoffHour(regDate)
         IN  IF ~isNoDrawDay(regDate) /\ regHour < cutoffHour
             THEN regDate
             ELSE getNextValidDrawDate(regDate + MinutesPerDay)

-----------------------------------------------------------------------------
(* Recharge matching                                                       *)

\* the null recharge, and the marker of an exception leaving the matcher
NoRecharge == [idx |-> 0, gameId |-> "", rechargeTime |-> InvalidDate]
Threw == [idx |-> -1, gameId |-> "", rechargeTime |-> RangeError]

\* lines 1099-1112: the ticket's draw date brought to YYYY-MM-DD
NormalizeDrawDate(drawDate) ==
    IF drawDate = EmptyString THEN EmptyString
    ELSE IF drawDate.order = "YMD" THEN drawDate
    ELSE IF drawDate.order = "DMY"
         THEN DateString("YMD", "-", drawDate.y, drawDate.m, drawDate.d, TRUE)
    ELSE EmptyString

\* a filter that hands the candidates over oldest first
EligibleRecharges_OldestFirst(ticketTime, rs) ==
    LET keep == [i \in 1..Len(rs) |->
                    IsValidDate(rs[i].rechargeTime) /\ rs[i].rechargeTime < ticketTime]
        idxs == SelectIdx(keep, 1, Len(rs))
        kept == [k \in 1..Len(idxs) |-> rs[idxs[k]]]
    IN  SortAscending(kept, [k \in 1..Len(kept) |-> kept[k].rechargeTime])

\* recharges before the ticket with a valid time, most recent first
EligibleRecharges(ticketTime, rs) ==
    LET keep == [i \in 1..Len(rs) |->
                    IsValidDate(rs[i].rechargeTime) /\ rs[i].rechargeTime < ticketTime]
        idxs == SelectIdx(keep, 1, Len(rs))
        kept == [k \in 1..Len(idxs) |-> rs[idxs[k]]]
    IN  SortDescending(kept, [k \in 1..Len(kept) |-> kept[k].rechargeTime])

\* a matcher that looks at no earlier ticket
PriorTickets_NoneLookedAt(ticket, recharge, allTickets) == <<>>

\* the other tickets registered strictly between the recharge and this ticket
PriorTickets(ticket, recharge, allTickets) ==
    LET keep == [i \in 1..Len(allTickets) |->
                    /\ allTickets[i].ticketNumber # ticket.ticketNumber
                    /\ IsValidDate(allTickets[i].parsedDate)
                    /\ allTickets[i].parsedDate < ticket.parsedDate
                    /\ allTickets[i].parsedDate > recharge.rechargeTime]
        idxs == SelectIdx(keep, 1, Len(allTickets))
    IN  [k \in 1..Len(idxs) |-> allTickets[idxs[k]]]

\* a matcher that forgets the earlier tickets: no recharge is ever taken
RechargeUsed_NeverTaken(priors, k, eligibleDrawStr) == "free"

RECURSIVE RechargeUsed(_, _, _)
\* lines 1135-1145: "used", "free", or "threw" when getEligibleDrawDate throws
RechargeUsed(priors, k, eligibleDrawStr) ==
    IF k > Len(priors) THEN "free"
    ELSE The({
            IF priorEligibleDraw = RangeError THEN "threw"
            ELSE IF priorEligibleDraw = InvalidDate
                 THEN RechargeUsed(priors, k + 1, eligibleDrawStr)
            ELSE IF getBrazilDateString(priorEligibleDraw) = eligibleDrawStr THEN "used"
            ELSE RechargeUsed(priors, k + 1, eligibleDrawStr)
         : priorEligibleDraw \in {getEligibleDrawDate(priors[k].parsedDate)}})

\* lines 1131-1149: the recharge when no earlier ticket has taken it
RechargeIfFree(ticket, cands, allTickets, k, priorTickets, eligibleDrawStr) ==
    IF Len(priorTickets) = 0 THEN cands[k]
    ELSE The({
            IF used = "threw" THEN Threw
            ELSE IF used = "free" THEN cands[k]
            ELSE NoRecharge
         : used \in {RechargeUsed(priorTickets, 1, eligibleDrawStr)}})

\* a matcher that takes the most recent earlier recharge without comparing
\* its draw window with the ticket's draw date
MatchFrom_AnyWindow(ticket, cands, allTickets, k) ==
    IF k > Len(cands) THEN NoRecharge ELSE cands[k]

RECURSIVE MatchFrom(_, _, _, _)
\* the loop over eligibleRecharges, from candidate k on
MatchFrom(ticket, cands, allTickets, k) ==
    IF k > Len(cands) THEN NoRecharge
    ELSE The({
            IF eligibleDraw = RangeError THEN Threw
            ELSE IF eligibleDraw = InvalidDate \/ eligibleDrawStr = EmptyString
                 THEN MatchFrom(ticket, cands, allTickets, k + 1)
            ELSE IF NormalizeDrawDate(ticket.drawDate) # eligibleDrawStr
                 THEN MatchFrom(ticket, cands, allTickets, k + 1)
            ELSE IF found # NoRecharge THEN found
            ELSE MatchFrom(ticket, cands, allTickets, k + 1)
         : eligibleDraw \in {getEligibleDrawDate(cands[k].rechargeTime)},
           eligibleDrawStr \in
                {getBrazilDateString(getEligibleDrawDate(cands[k].rechargeTime))},
           found \in
                {RechargeIfFree(ticket, cands, allTickets, k,
                    PriorTickets(ticket, cands[k], allTickets),
                    getBrazilDateString(getEligibleDrawDate(cands[k].rechargeTime)))}})

\* findMatchingRecharge without the check of the ticket's timestamp of lines
\* 1064-1066: ticket.parsedDate.getTime() on a missing date raises
findMatchingRecharge_UnguardedTimestamp(ticket, rs, allTickets) ==
    IF ~IsValidDate(ticket.parsedDate) THEN Threw
    ELSE IF Len(rs) = 0 THEN NoRecharge
    ELSE The({
            IF Len(eligibleRecharges) = 0 THEN NoRecharge
            ELSE MatchFrom(ticket, eligibleRecharges, allTickets, 1)
         : eligibleRecharges \in {EligibleRecharges(ticket.parsedDate, rs)}})

findMatchingRecharge(ticket, rs, allTickets) ==
    IF ~IsValidDate(ticket.parsedDate) THEN NoRecharge
    ELSE IF Len(rs) = 0 THEN NoRecharge
    ELSE The({
            IF Len(eligibleRecharges) = 0 THEN NoRecharge
            ELSE MatchFrom(ticket, eligibleRecharges, allTickets, 1)
         : eligibleRecharges \in {EligibleRecharges(ticket.parsedDate, rs)}})

-----------------------------------------------------------------------------
(* Upstream status strings                                                 *)

\* The status words of the sheet that the model draws from.  The two
\* accented words are different strings: line 93 of unified-page.js knows
\* INVALIDO written with U+00C1 (A acute), the literal of validateTicket and
\* of INVALID_STATUSES is written with U+00C3 (A tilde).
INVALIDO_ACUTE == "INV(U+00C1)LIDO"
INVALIDO_TILDE == "INV(U+00C3)LIDO"

\* String.prototype.toUpperCase on the status words
toUpperCase(s) ==
    CASE s = "valid" -> "VALID"
      [] s = "Validado" -> "VALIDADO"
      [] s = "validated" -> "VALIDATED"
      [] s = "invalid" -> "INVALID"
      [] s = "inv(U+00E1)lido" -> INVALIDO_ACUTE
      [] s = "inv(U+00E3)lido" -> INVALIDO_TILDE
      [] s = "pending" -> "PENDING"
      [] s = "rejected" -> "REJECTED"
      [] s = "Cancelled" -> "CANCELLED"
      [] OTHER -> s

-----------------------------------------------------------------------------
(* Ticket validation                                                       *)

ValidationStatus == [VALID |-> "VALID", INVALID |-> "INVALID",
                     UNKNOWN |-> "UNKNOWN", CUTOFF |-> "CUTOFF"]

\* lines 1208-1221: the cutoff flag of a ticket
CutoffViolation(ticket) ==
    IF ~IsValidDate(ticket.parsedDate) THEN FALSE
    ELSE LET regHour == getHours(ticket.parsedDate)
             regMinute == getMinutes(ticket.parsedDate)
             \* checkDate = new Date(`${dateStr}T12:00:00-03:00`)
             checkDate == BrazilMidnight(ticket.parsedDate) + 12 * MinutesPerHour
             cutoffHour == getCutoffHour(checkDate)
         IN  regHour >= cutoffHour \/ (regHour = cutoffHour - 1 /\ regMinute > 59)

\* a lookup that hands every owner's rows to every owner
ByGameId_AnyOwner(rows, gameId) == SelectSeq(rows, LAMBDA r : r.gameId # "")

\* rechargesByGameId[gameId] || [] and ticketsByGameId[gameId] || []
ByGameId(rows, gameId) ==
    LET keep == [i \in 1..Len(rows) |-> rows[i].gameId # "" /\ rows[i].gameId = gameId]
        idxs == SelectIdx(keep, 1, Len(rows))
    IN  [k \in 1..Len(idxs) |-> rows[idxs[k]]]

\* validateTicket(ticket, rechargesByGameId, ticketsByGameId), the two maps
\* being the groupings of the recharge list rs and of the ticket list ts.
\* matcherCalls counts the invocations of findMatchingRecharge.
validateTicket(ticket, rs, ts) ==
    LET result == [ticket |-> ticket, status |-> ValidationStatus.UNKNOWN, reason |-> "",
                   matchedRecharge |-> NoRecharge, isCutoff |-> FALSE, matcherCalls |-> 0]
    IN  The({
            IF existingStatus \in {"VALID", "VALIDADO", "VALIDATED"}
            THEN [result EXCEPT !.status = ValidationStatus.VALID,
                                !.reason = "Pre-validated in source data"]
            ELSE IF existingStatus \in {"INVALID", INVALIDO_TILDE}
            THEN [result EXCEPT !.status = ValidationStatus.INVALID,
                                !.reason = "Marked invalid in source data"]
            ELSE IF ticket.gameId = ""
            THEN [result EXCEPT !.status = ValidationStatus.INVALID,
                                !.reason = "Missing Game ID"]
            ELSE IF Len(ownerRecharges) = 0
            THEN [result EXCEPT !.status = ValidationStatus.INVALID,
                                !.reason = "No recharge found for Game ID"]
            ELSE IF matchedRecharge = Threw
            THEN [result EXCEPT !.status = "THROWN", !.isCutoff = isCutoff,
                                !.matcherCalls = 1]
            ELSE IF matchedRecharge # NoRecharge
            THEN [result EXCEPT !.status = ValidationStatus.VALID,
                                !.reason = "Matched recharge",
                                !.matchedRecharge = matchedRecharge,
                                !.isCutoff = isCutoff, !.matcherCalls = 1]
            ELSE [result EXCEPT !.status = ValidationStatus.INVALID,

                                                  !.reason = "Recharge exists but timing does not match draw window",
                                !.isCutoff = isCutoff, !.matcherCalls = 1]
         : existingStatus \in {toUpperCase(ticket.status)},
           ownerRecharges \in {ByGameId(rs, ticket.gameId)},
           isCutoff \in {CutoffViolation(ticket)},
           matchedRecharge \in
                {findMatchingRecharge(ticket, ByGameId(rs, ticket.gameId),
                                      ByGameId(ts, ticket.gameId))}})

-----------------------------------------------------------------------------
(* DataFetcher: the processed-data cache                                   *)

\* `${data.length}-${first key}-${last key}`, the key of a record being
\* ticketNumber || contest || ''
HashKey(rec) ==
    IF "ticketNumber" \in DOMAIN rec /\ rec.ticketNumber # "" THEN rec.ticketNumber
    ELSE IF "contest" \in DOMAIN rec THEN rec.contest
    ELSE ""

simpleHash(data) ==
    IF Len(data) = 0 THEN <<0, "", "">>
    ELSE <<Len(data), HashKey(data[1]), HashKey(data[Len(data)])>>

\* simpleHash(cache.entries.data), '' when there is no data
EntriesHash(c) == IF c.entries.has THEN simpleHash(c.entries.data) ELSE <<"">>

\* the null of an empty cache slot, a record as the cached objects are
NullData == [isNull |-> TRUE]

EmptyCache ==
    [entries |-> [has |-> FALSE, data |-> <<>>],
     validation |-> [has |-> FALSE, data |-> NullData, entriesHash |-> <<NULL>>],
     winners |-> [has |-> FALSE, data |-> NullData, entriesHash |-> <<NULL>>,
                  resultsHash |-> <<NULL>>]]

\* getCachedValidation() returns a value (not null)
HasCachedValidation(c) ==
    /\ c.entries.has
    /\ c.validation.has
    /\ c.validation.entriesHash = simpleHash(c.entries.data)

setCachedValidation(c, data) ==
    [c EXCEPT !.validation = [has |-> TRUE, data |-> data, entriesHash |-> EntriesHash(c)]]

-----------------------------------------------------------------------------
(* validateAllTickets                                                      *)

batchSize == 1          \* 50 in the source, scaled to the ticket bound

ZeroStats == [total |-> 0, valid |-> 0, invalid |-> 0, unknown |-> 0, cutoff |-> 0]

IdleRun == [pc |-> "idle", i |-> 0, results |-> <<>>, stats |-> ZeroStats,
            skipCache |-> FALSE, fromCache |-> FALSE]

\* a switch without its breaks: a VALID outcome falls through to the
\* cases below it
CountOutcome_FallsThrough(stats, validation) ==
    LET s1 == CASE validation.status = ValidationStatus.VALID ->
                        [stats EXCEPT !.valid = @ + 1, !.invalid = @ + 1, !.unknown = @ + 1]
                [] validation.status = ValidationStatus.INVALID ->
                        [stats EXCEPT !.invalid = @ + 1, !.unknown = @ + 1]
                [] OTHER -> [stats EXCEPT !.unknown = @ + 1]
    IN  IF validation.isCutoff THEN [s1 EXCEPT !.cutoff = @ + 1] ELSE s1

\* the switch on validation.status and the cutoff count (lines 1298-1311)
CountOutcome(stats, validation) ==
    LET s1 == CASE validation.status = ValidationStatus.VALID ->
                        [stats EXCEPT !.valid = @ + 1]
                [] validation.status = ValidationStatus.INVALID ->
                        [stats EXCEPT !.invalid = @ + 1]
                [] OTHER -> [stats EXCEPT !.unknown = @ + 1]
    IN  IF validation.isCutoff THEN [s1 EXCEPT !.cutoff = @ + 1] ELSE s1

RECURSIVE ValidateBatch(_, _, _)
\* the inner loop over entries.slice(i, i + batchSize), from ticket k to ticket last;
\* stops at a ticket whose validation throws
ValidateBatch(run, k, last) ==
    IF k > last THEN run
    ELSE The({
            IF validation.status = "THROWN" THEN [run EXCEPT !.pc = "threw"]
            ELSE ValidateBatch([run EXCEPT !.results = Append(@, validation),
                                           !.stats = CountOutcome(@, validation)],
                               k + 1, last)
         : validation \in {validateTicket(entries[k], recharges, entries)}})

\* a loop that resumes one ticket too far after a yield
BatchTurn_SkipsAfterYield(run) ==
    IF run.i + batchSize < Len(entries)
    THEN [ValidateBatch(run, run.i + 1, run.i + batchSize) EXCEPT
            !.pc = "yield", !.i = run.i + batchSize + 1]
    ELSE [ValidateBatch(run, run.i + 1, Len(entries)) EXCEPT
            !.pc = "done", !.i = Len(entries)]

\* one turn of the outer loop, at offset run.i: the batch, then either the
\* yield or the end of the function
BatchTurn(run) ==
    LET last == IF run.i + batchSize < Len(entries) THEN run.i + batchSize ELSE Len(entries)
    IN  The({
            IF after.pc = "threw" THEN after
            ELSE IF run.i + batchSize < Len(entries)
                 THEN [after EXCEPT !.pc = "yield", !.i = run.i + batchSize]
                 ELSE [after EXCEPT !.pc = "done", !.i = Len(entries)]
         : after \in {ValidateBatch(run, run.i + 1, last)}})

\* the value validateAllTickets resolves to
ValidationResult(run) ==
    [results |-> run.results, stats |-> run.stats, rechargeCount |-> Len(recharges)]

\* the cache check of lines 1247-1253
UsesCachedValidation(c, skipCache) ==
    /\ ~skipCache
    /\ HasCachedValidation(c)
    /\ "stats" \in DOMAIN c.validation.data
    /\ c.validation.data.stats.total = Len(entries)
    /\ "entriesCount" \in DOMAIN c.validation.data
    /\ c.validation.data.entriesCount = Len(entries)

\* after a turn: the cache is written when the function ends normally
CacheAfter(c, run) ==
    IF run.pc = "done" /\ ~run.fromCache THEN setCachedValidation(c, ValidationResult(run)) ELSE c

\* validateAllTickets(entries, recharges, skipCache) is called: everything up
\* to the first await, or to the return when there is none
VCall(skipCache) ==
    /\ vrun.pc = "idle"
    /\ LET start == [IdleRun EXCEPT !.skipCache = skipCache,
                                    !.stats = [ZeroStats EXCEPT !.total = Len(entries)]]
       IN  \E next \in {IF UsesCachedValidation(cache, skipCache)
                         THEN [start EXCEPT !.pc = "done", !.fromCache = TRUE,
                                            !.results = cache.validation.data.results,
                                            !.stats = cache.validation.data.stats]
                         ELSE BatchTurn(start)} :
                /\ vrun' = next
                /\ cache' = CacheAfter(cache, next)
    /\ UNCHANGED <<tz, entries, recharges, results, platform, wrun, score, vother,
                   cachedFrom, draw, currentData, query>>

\* the 5 ms timer of the yield fires: the next batch
VResume ==
    /\ vrun.pc = "yield"
    /\ \E next \in {BatchTurn(vrun)} :
            /\ vrun' = next
            /\ cache' = CacheAfter(cache, next)
    /\ UNCHANGED <<tz, entries, recharges, results, platform, wrun, score, vother,
                   cachedFrom, draw, currentData, query>>

-----------------------------------------------------------------------------
(* The snapshots the model draws from                                      *)

MaxTickets == 2
MaxRecharges == 2

\* hosts in Brazil time, in UTC-5 and in UTC+8
HostOffsets == {0, -2, 11}

\* Tuesday 2025-12-30: a draw day; Wednesday 2025-12-31: early cutoff
Recharge0900 == At(2025, 12, 30, 9, 0)
Recharge1030 == At(2025, 12, 30, 10, 30)
Ticket1000 == At(2025, 12, 30, 10, 0)
Ticket1130 == At(2025, 12, 30, 11, 30)
Ticket2100 == At(2025, 12, 30, 21, 0)
Ticket2200 == At(2025, 12, 30, 22, 0)

Dec30 == DateString("DMY", "/", 2025, 12, 30, TRUE)     \* '30/12/2025'
Dec31 == DateString("YMD", "-", 2025, 12, 31, TRUE)     \* '2025-12-31'

Entry(gameId, parsedDate, drawDate, status) ==
    [ticketNumber |-> "", gameId |-> gameId, parsedDate |-> parsedDate,
     drawDate |-> drawDate, status |-> status, platform |-> "POPN1",
     contest |-> "", numbers |-> <<>>]

Recharge(gameId, rechargeTime) == [idx |-> 0, gameId |-> gameId, rechargeTime |-> rechargeTime]

TicketShapes ==
    {Entry("A", t, d, "PENDING") :
        t \in {Ticket1000, Ticket1130, Ticket2100}, d \in {Dec30, Dec31}}
    \cup {Entry("A", Ticket2200, Dec30, "PENDING"),
          Entry("B", Ticket1000, Dec30, "PENDING"),
          Entry("", Ticket1000, Dec30, "PENDING"),
          Entry("A", InvalidDate, Dec30, "PENDING")}

RechargeShapes ==
    {Recharge("A", Recharge0900), Recharge("A", Recharge1030),
     Recharge("B", Recharge0900), Recharge("A", InvalidDate)}

\* the rows of a sheet: row i gets the ticket number / the identity i
NumberedEntries(shapes) ==
    [i \in 1..Len(shapes) |-> [shapes[i] EXCEPT !.ticketNumber = ToString(i)]]
NumberedRecharges(shapes) ==
    [i \in 1..Len(shapes) |-> [shapes[i] EXCEPT !.idx = i]]

SeqsUpTo(S, n) == UNION {[1..k -> S] : k \in 0..n}

\* the variables of the winners side, at rest
IdleWinners == [pc |-> "idle"]
NoScore == [pc |-> "none"]
NoDrawCall == [pc |-> "none"]
NoQuery == [pc |-> "none"]

\* nothing cached yet, no second validation, no draw-calendar call, nothing
\* loaded into the page
NoSnapshot == [has |-> FALSE, entries |-> <<>>, results |-> <<>>]
\* currentData as the page declares it (lines 25-32)
NoCurrentData == [entries |-> <<>>, validationResults |-> NullData]

AtRest ==
    /\ vother = IdleRun
    /\ cachedFrom = NoSnapshot
    /\ draw = NoDrawCall
    /\ currentData = NoCurrentData
    /\ query = NoQuery

\* a snapshot of tickets and recharges as the fetchers hold it, nothing computed yet
ValidatorSnapshot(ticketShapes, rechargeShapes) ==
    /\ \E shapes \in SeqsUpTo(ticketShapes, MaxTickets) : entries = NumberedEntries(shapes)
    /\ \E shapes \in SeqsUpTo(rechargeShapes, MaxRecharges) :
            recharges = NumberedRecharges(shapes)
    /\ results = <<>>
    /\ platform = "ALL"
    /\ cache = [EmptyCache EXCEPT !.entries = [has |-> TRUE, data |-> entries]]
    /\ vrun = IdleRun
    /\ wrun = IdleWinners
    /\ AtRest
    /\ score = NoScore

\* the dashboard runs on a host in Brazil time
Init ==
    /\ tz = 0
    /\ ValidatorSnapshot(TicketShapes, RechargeShapes)

\* the dashboard runs on a host in any of the time zones
InitAnyHost ==
    /\ tz \in HostOffsets
    /\ ValidatorSnapshot(TicketShapes, RechargeShapes)

Next ==
    \/ VCall(platform # "ALL")
    \/ VResume

Spec == Init /\ [][Next]_vars

SpecAnyHost == InitAnyHost /\ [][Next]_vars

-----------------------------------------------------------------------------
(* Claims about the validator                                              *)

Done == vrun.pc = "done"
Outcome(k) == vrun.results[k]
MatchedValid(k) ==
    Outcome(k).status = ValidationStatus.VALID /\ Outcome(k).matchedRecharge # NoRecharge

\* C1: after validateAllTickets, no two distinct VALID tickets with a matched
\* recharge and the same normalized draw date reference the same recharge.
C1_OneTicketPerRechargeAndWindow ==
    Done =>
        \A i, j \in 1..Len(vrun.results) :
            (/\ i # j
             /\ MatchedValid(i)
             /\ MatchedValid(j)
             /\ NormalizeDrawDate(Outcome(i).ticket.drawDate)
                    = NormalizeDrawDate(Outcome(j).ticket.drawDate))
            => Outcome(i).matchedRecharge.idx # Outcome(j).matchedRecharge.idx

\* the window a timestamp maps to, as the matcher computes and compares it
EligibleDrawStr(date) == getBrazilDateString(getEligibleDrawDate(date))

\* the tickets and the recharges of an owner, by position in the snapshot
TicketsOf(g) == {k \in 1..Len(entries) : entries[k].gameId = g}
RechargesOf(g) == {k \in 1..Len(recharges) : recharges[k].gameId = g}

NoUpstreamStatus(ticket) ==
    toUpperCase(ticket.status) \notin {"VALID", "VALIDADO", "VALIDATED", "INVALID",
                                      INVALIDO_ACUTE, INVALIDO_TILDE}

\* the case of C2: owner of tickets i and j has exactly these two tickets and
\* exactly one recharge r, r before i before j, all three in one draw window,
\* which is also the draw date both tickets declare
ExclusivityCase(i, j, r) ==
    /\ i # j
    /\ entries[i].gameId # ""
    /\ TicketsOf(entries[i].gameId) = {i, j}
    /\ RechargesOf(entries[i].gameId) = {r}
    /\ NoUpstreamStatus(entries[i]) /\ NoUpstreamStatus(entries[j])
    /\ IsValidDate(recharges[r].rechargeTime)
    /\ IsValidDate(entries[i].parsedDate) /\ IsValidDate(entries[j].parsedDate)
    /\ recharges[r].rechargeTime < entries[i].parsedDate
    /\ entries[i].parsedDate < entries[j].parsedDate
    /\ EligibleDrawStr(recharges[r].rechargeTime) # EmptyString
    /\ \A k \in {i, j} :
        /\ NormalizeDrawDate(entries[k].drawDate) = EligibleDrawStr(recharges[r].rechargeTime)
        /\ EligibleDrawStr(entries[k].parsedDate) = EligibleDrawStr(recharges[r].rechargeTime)

\* C2: one recharge at T0, two tickets at T1 < T2 after it, all in the same
\* draw window: the T1 ticket is VALID with that recharge, the T2 ticket INVALID.
C2_EarlierTicketWinsRecharge ==
    Done =>
        \A i, j \in 1..Len(entries) : \A r \in 1..Len(recharges) :
            ExclusivityCase(i, j, r) =>
                /\ Outcome(i).status = ValidationStatus.VALID
                /\ Outcome(i).matchedRecharge = recharges[r]
                /\ Outcome(j).status = ValidationStatus.INVALID
                /\ Outcome(j).matchedRecharge = NoRecharge

\* witness of C2: a finished validation of such a snapshot
C2_Witness ==
    /\ Done
    /\ \E i, j \in 1..Len(entries) : \E r \in 1..Len(recharges) :
        /\ ExclusivityCase(i, j, r)
        /\ Outcome(i).matchedRecharge = recharges[r]
        /\ Outcome(j).status = ValidationStatus.INVALID

\* the registration hour is at or after the cutoff hour of its calendar day,
\* both read in Brazil time
RegisteredAtOrAfterCutoff(ticket) ==
    /\ IsValidDate(ticket.parsedDate)
    /\ LET day == CalendarDate(ticket.parsedDate \div MinutesPerDay)
           hour == (ticket.parsedDate \div MinutesPerHour) % 24
           cutoff == IF day.m = 11 /\ day.d \in {24, 31} THEN 16 ELSE 20
       IN  hour >= cutoff

\* C4: the cutoff flag of every outcome is the one the registration hour and
\* the calendar day give, whatever the recharges on record are.
C4_CutoffFlagIgnoresRecharges ==
    Done =>
        \A k \in 1..Len(vrun.results) :
            Outcome(k).isCutoff = RegisteredAtOrAfterCutoff(Outcome(k).ticket)

-----------------------------------------------------------------------------
(* Upstream statuses: the snapshots and the claim                          *)

\* status words of the sheet, in several spellings
StatusWords ==
    {"", "PENDING", "VALID", "valid", "Validado", "VALIDATED",
     "INVALID", "invalid", INVALIDO_ACUTE, INVALIDO_TILDE}

StatusTicketShapes ==
    {Entry(g, Ticket1000, Dec30, s) : g \in {"A", ""}, s \in StatusWords}
    \cup {Entry("A", InvalidDate, Dec30, "VALID")}

InitStatus ==
    /\ tz = 0
    /\ ValidatorSnapshot(StatusTicketShapes, {Recharge("A", Recharge0900)})

SpecStatus == InitStatus /\ [][Next]_vars

\* the upstream words that mean validated, and those that mean invalid
\* (the accented word as the entries table of the dashboard knows it)
MeansValidated(status) == toUpperCase(status) \in {"VALID", "VALIDADO", "VALIDATED"}
MeansInvalid(status) == toUpperCase(status) \in {"INVALID", INVALIDO_ACUTE}

\* C10: a ticket whose upstream status means validated is VALID, one whose
\* status means invalid is INVALID, and in both cases the matcher is not
\* invoked and no recharge is matched.
C10_UpstreamStatusTrusted ==
    Done =>
        \A k \in 1..Len(vrun.results) :
            /\ MeansValidated(Outcome(k).ticket.status) =>
                    /\ Outcome(k).status = ValidationStatus.VALID
                    /\ Outcome(k).matcherCalls = 0
                    /\ Outcome(k).matchedRecharge = NoRecharge
            /\ MeansInvalid(Outcome(k).ticket.status) =>
                    /\ Outcome(k).status = ValidationStatus.INVALID
                    /\ Outcome(k).matcherCalls = 0
                    /\ Outcome(k).matchedRecharge = NoRecharge

-----------------------------------------------------------------------------
(* WinnerCalculator: matching                                              *)

MIN_MATCHES_TO_WIN == 3

\* INVALID_STATUSES; the accented word is the one written with U+00C3
INVALID_STATUSES == {"INVALID", INVALIDO_TILDE, "REJECTED", "CANCELLED"}

\* Array.prototype.includes
includes(s, x) == \E i \in 1..Len(s) : s[i] = x

\* the elements of entryNumbers found among winningNumbers, one for each
\* position of entryNumbers; then sorted ascending
countMatches(entryNumbers, winningNumbers) ==
    LET matched == SelectSeq(entryNumbers, LAMBDA n : includes(winningNumbers, n))
    IN  [count |-> Len(matched),
         matchedNumbers |-> SortAscending(matched, matched)]

\* a calculator that looks at no status
isValidEntry_AnyStatus(entry) == TRUE

isValidEntry(entry) == toUpperCase(entry.status) \notin INVALID_STATUSES

\* one call of countMatches
CountMatchesCall ==
    /\ score.pc = "args"
    /\ score' = [score EXCEPT !.pc = "returned",
                    !.result = countMatches(score.entryNumbers, score.winningNumbers)]
    /\ UNCHANGED <<tz, entries, recharges, results, platform, cache, vrun, wrun, vother,
                   cachedFrom, draw, currentData, query>>

\* the longest number list the calls are drawn from
MaxNumbers == 3

\* numbers of the 1..80 range, both ends and two inside
NumberSamples == {1, 7, 33, 80}

NoCountResult == [count |-> -1, matchedNumbers |-> <<>>]

InitScore ==
    /\ tz = 0
    /\ entries = <<>>
    /\ recharges = <<>>
    /\ results = <<>>
    /\ platform = "ALL"
    /\ cache = EmptyCache
    /\ vrun = IdleRun
    /\ wrun = IdleWinners
    /\ AtRest
    /\ \E chosen \in SeqsUpTo(NumberSamples, MaxNumbers),
          winning \in SeqsUpTo(NumberSamples, MaxNumbers) :
            score = [pc |-> "args", entryNumbers |-> chosen,
                     winningNumbers |-> winning, result |-> NoCountResult]

NextScore == CountMatchesCall

SpecScore == InitScore /\ [][NextScore]_vars

-----------------------------------------------------------------------------
(* Claims about matching                                                   *)

\* the list s with its positions rearranged by the permutation p
Reordered(s, p) == [i \in 1..Len(s) |-> s[p[i]]]
Rearrangements(s) == {Reordered(s, p) : p \in Permutations(1..Len(s))}

\* the numbers of a set, ascending
RECURSIVE Ascending(_)
Ascending(S) ==
    IF S = {} THEN <<>>
    ELSE LET least == CHOOSE x \in S : \A y \in S : x <= y
         IN  <<least>> \o Ascending(S \ {least})

\* C9: countMatches returns the size of the set intersection of the chosen
\* and the winning numbers and that intersection in ascending order, and
\* returns the same for every rearrangement of either list.
C9_CountIsSetIntersection ==
    score.pc = "returned" =>
        LET common == Range(score.entryNumbers) \cap Range(score.winningNumbers)
        IN  /\ score.result.count = Cardinality(common)
            /\ score.result.matchedNumbers = Ascending(common)
            /\ \A chosen \in Rearrangements(score.entryNumbers),
                  winning \in Rearrangements(score.winningNumbers) :
                    countMatches(chosen, winning) = score.result

-----------------------------------------------------------------------------
(* IEEE-754 doubles: the quotient of two integers                          *)
(* A double is [zero, exp, sig]: zero, or the value sig * 2^exp, sig being *)
(* the 53-bit significand in three limbs <<high 17 bits, 18 bits, low 18   *)
(* bits>> with the highest bit set.  Integers below 2^17 and divisors      *)
(* below 2^13 are covered.                                                 *)

LimbBits == 18
HighLimbBits == 17
Limb == 2 ^ LimbBits
HighLimb == 2 ^ HighLimbBits

DoubleZero == [zero |-> TRUE, exp |-> 0, sig |-> <<0, 0, 0>>]

\* the number of binary digits of an integer 0 <= v < 2^30
BitLength(v) == CHOOSE k \in 0..30 : v < 2 ^ k /\ (k = 0 \/ v >= 2 ^ (k - 1))

\* the double one unit in the last place above a double that is not zero
NextUp(x) ==
    IF x.sig[3] + 1 < Limb THEN [x EXCEPT !.sig[3] = @ + 1]
    ELSE IF x.sig[2] + 1 < Limb THEN [x EXCEPT !.sig = <<x.sig[1], x.sig[2] + 1, 0>>]
    ELSE IF x.sig[1] + 1 < HighLimb THEN [x EXCEPT !.sig = <<x.sig[1] + 1, 0, 0>>]
    ELSE [x EXCEPT !.exp = @ + 1, !.sig = <<HighLimb \div 2, 0, 0>>]

\* round to nearest, ties to even: twice the dropped part is compared with
\* the unit (the divisor, or the weight of the last kept digit)
RoundNearestEven(x, twiceDropped, unit) ==
    IF twiceDropped > unit \/ (twiceDropped = unit /\ x.sig[3] % 2 = 1)
    THEN NextUp(x) ELSE x

\* the quotient q / n, 1 <= q / n, by long division: the integer part, the
\* digits that fill the high limb, two limbs more, and the rounding
DivideScaled(q, n, shift, fill) ==
    LET r0 == q % n
        r1 == (r0 * 2 ^ fill) % n
        r2 == (r1 * Limb) % n
        r3 == (r2 * Limb) % n
    IN  RoundNearestEven(
            [zero |-> FALSE, exp |-> 0 - (shift + fill + 2 * LimbBits),
             sig |-> <<(q \div n) * 2 ^ fill + (r0 * 2 ^ fill) \div n,
                       (r1 * Limb) \div n, (r2 * Limb) \div n>>],
            2 * r3, n)

\* the least s with p * 2^s >= n
LeadingShift(p, n) == CHOOSE s \in 0..13 : p * 2 ^ s >= n /\ (s = 0 \/ p * 2 ^ (s - 1) < n)

\* p / n in JavaScript for integers p >= 0 and n > 0
Divide(p, n) ==
    IF p = 0 THEN DoubleZero
    ELSE DivideScaled(p * 2 ^ LeadingShift(p, n), n, LeadingShift(p, n),
                      HighLimbBits - BitLength((p * 2 ^ LeadingShift(p, n)) \div n))

\* the double of the integer p > 0
DoubleOf(p) ==
    [zero |-> FALSE, exp |-> BitLength(p) - 53,
     sig |-> <<p * 2 ^ (HighLimbBits - BitLength(p)), 0, 0>>]

-----------------------------------------------------------------------------
(* WinnerCalculator: one contest                                           *)

\* PRIZE_TIERS (name, label, isWinner), and the tierInfo of tier 0 (null)
PRIZE_TIERS ==
    <<[name |-> "No Prize", label |-> "1 match", isWinner |-> FALSE],
      [name |-> "No Prize", label |-> "2 matches", isWinner |-> FALSE],
      [name |-> "3rd Prize", label |-> "3 matches", isWinner |-> TRUE],
      [name |-> "2nd Prize", label |-> "4 matches", isWinner |-> TRUE],
      [name |-> "Jackpot", label |-> "5 matches", isWinner |-> TRUE]>>
NoTierInfo == [name |-> "", label |-> "", isWinner |-> FALSE]

\* AdminCore.PLATFORM_PRIZES and getPlatformPrize
PLATFORM_PRIZES == [POPN1 |-> 1000, POPLUZ |-> 1000, DEFAULT |-> 1000]

getPlatformPrize(p) ==
    IF p \in DOMAIN PLATFORM_PRIZES THEN PLATFORM_PRIZES[p] ELSE PLATFORM_PRIZES.DEFAULT

\* AdminCore is loaded: the platform's prize, never DEFAULT_PRIZE_POOL
getPrizePool(p) == getPlatformPrize(p)

\* a row of the results sheet, and what resultsMap.get returns for a
\* contest without a row (undefined)
Result(contest, numbers, isNoDraw) ==
    [found |-> TRUE, contest |-> contest, drawDate |-> "", numbers |-> numbers,
     isNoDraw |-> isNoDraw]
NoResult == [found |-> FALSE, contest |-> "", drawDate |-> "", numbers |-> <<>>,
             isNoDraw |-> FALSE]

\* { ...entry, matches, matchedNumbers, isValidEntry }
Winner(entry, matchResult) ==
    [matches |-> matchResult.count, matchedNumbers |-> matchResult.matchedNumbers,
     isValidEntry |-> isValidEntry(entry)] @@ entry

\* what the forEach of lines 139-162 builds for each entry that has numbers
\* and at least one match, in the order of the entries
Scored(contestEntries, winningNumbers) ==
    LET all == [i \in 1..Len(contestEntries) |->
                    Winner(contestEntries[i],
                           countMatches(contestEntries[i].numbers, winningNumbers))]
    IN  SelectSeq(all, LAMBDA w : Len(w.numbers) > 0 /\ w.matches > 0)

\* byTier: the bucket of t matches, t in 1..5; other counts have no bucket
ByTier(scored) == [t \in 1..5 |-> SelectSeq(scored, LAMBDA w : w.matches = t)]

\* the winners in the order of the entries, the sort of line 165 left out
Winners_Unsorted(scored) ==
    SelectSeq(scored, LAMBDA w : w.isValidEntry /\ w.matches >= MIN_MATCHES_TO_WIN)

\* winners, sorted by matches descending (line 165)
Winners(scored) ==
    LET qualified == SelectSeq(scored, LAMBDA w :
                        w.isValidEntry /\ w.matches >= MIN_MATCHES_TO_WIN)
    IN  SortDescending(qualified, [i \in 1..Len(qualified) |-> qualified[i].matches])

ValidIn(bucket) == SelectSeq(bucket, LAMBDA w : w.isValidEntry)

RECURSIVE WinningTierFrom(_, _)
\* the loop of lines 169-175, at tier
WinningTierFrom(byTier, tier) ==
    IF tier < MIN_MATCHES_TO_WIN THEN 0
    ELSE IF Len(ValidIn(byTier[tier])) > 0 THEN tier
    ELSE WinningTierFrom(byTier, tier - 1)

\* the pool split among all the entries of the winning bucket, valid or not
PrizePerWinner_WholeBucket(prizePool, byTier, winningTier) ==
    IF winningTier > 0 THEN Divide(prizePool, Len(byTier[winningTier])) ELSE DoubleZero

\* lines 177-186
PrizePerWinner(prizePool, byTier, winningTier) ==
    IF winningTier > 0 /\ Len(ValidIn(byTier[winningTier])) > 0
    THEN Divide(prizePool, Len(ValidIn(byTier[winningTier])))
    ELSE DoubleZero

TotalPrizeAwarded(prizePool, byTier, winningTier) ==
    IF winningTier > 0 /\ Len(ValidIn(byTier[winningTier])) > 0 THEN prizePool ELSE 0

\* result?.contest || contestId || entries[0]?.contest || 'Unknown'
ContestOf(contestEntries, result, contestId) ==
    IF result.found /\ result.contest # "" THEN result.contest
    ELSE IF contestId # "" THEN contestId
    ELSE IF Len(contestEntries) > 0 /\ contestEntries[1].contest # ""
         THEN contestEntries[1].contest
    ELSE "Unknown"

\* the return of lines 188-203, from the scored entries
ContestWinners(contestEntries, result, p, contestId, scored, winningTier) ==
    [contest |-> ContestOf(contestEntries, result, contestId),
     drawDate |-> result.drawDate,
     winningNumbers |-> result.numbers,
     hasResult |-> TRUE,
     totalEntries |-> Len(contestEntries),
     validEntries |-> Len(SelectSeq(contestEntries, isValidEntry)),
     winners |-> Winners(scored),
     byTier |-> ByTier(scored),
     winningTier |-> winningTier,
     prizePerWinner |-> PrizePerWinner(getPrizePool(p), ByTier(scored), winningTier),
     prizePool |-> getPrizePool(p),
     totalPrizeAwarded |-> TotalPrizeAwarded(getPrizePool(p), ByTier(scored), winningTier),
     tierInfo |-> IF winningTier \in DOMAIN PRIZE_TIERS THEN PRIZE_TIERS[winningTier]
                  ELSE NoTierInfo,
     platform |-> p]

\* a guard that does not count the winning numbers
NoUsableResult_AnyLength(result) == ~result.found \/ result.isNoDraw

\* line 117: !result || result.isNoDraw || result.numbers.length !== 5
NoUsableResult(result) == ~result.found \/ result.isNoDraw \/ Len(result.numbers) # 5

calculateContestWinners(contestEntries, result, p, contestId) ==
    IF NoUsableResult(result)
    THEN [contest |-> ContestOf(contestEntries, result, contestId),
          drawDate |-> result.drawDate,
          winningNumbers |-> <<>>,
          hasResult |-> FALSE,
          totalEntries |-> Len(contestEntries),
          winners |-> <<>>,
          byTier |-> <<>>,
          prizePerWinner |-> DoubleZero,
          winningTier |-> 0,
          prizePool |-> getPrizePool(p),
          platform |-> p]
    ELSE ContestWinners(contestEntries, result, p, contestId,
                        Scored(contestEntries, result.numbers),
                        WinningTierFrom(ByTier(Scored(contestEntries, result.numbers)), 5))

-----------------------------------------------------------------------------
(* WinnerCalculator: all contests                                          *)

\* DataStore.filterByPlatform
filterByPlatform(es, p) ==
    IF p = "" \/ p = "ALL" THEN es
    ELSE SelectSeq(es, LAMBDA e :
            toUpperCase(IF e.platform = "" THEN "POPN1" ELSE e.platform) = toUpperCase(p))

\* the key of an entry in groupEntriesByContest: entry.contest || 'Unknown'
GroupKey(entry) == IF entry.contest = "" THEN "Unknown" ELSE entry.contest

\* entriesByContest[contest] || []
EntriesOfContest(es, contest) == SelectSeq(es, LAMBDA e : GroupKey(e) = contest)

\* Set.prototype.add / a first assignment to a key of an object
AddKey(keys, x) == IF includes(keys, x) THEN keys ELSE Append(keys, x)

RECURSIVE FirstOccurrences(_)
\* the elements in the order of their first occurrence (insertion order of
\* a Set and of the string keys of an object)
FirstOccurrences(s) ==
    IF s = <<>> THEN <<>>
    ELSE AddKey(FirstOccurrences(SubSeq(s, 1, Len(s) - 1)), s[Len(s)])

\* parseInt(contest, 10) for the contest ids of the model; NaN is -1
ContestNumbers == [c \in {"9", "10", "11"} |-> IF c = "9" THEN 9 ELSE IF c = "10" THEN 10 ELSE 11]
NaN == -1
parseInt(contest) == IF contest \in DOMAIN ContestNumbers THEN ContestNumbers[contest] ELSE NaN

\* Object.keys: the integer-like keys ascending, then the others in
\* insertion order
ObjectKeys(inserted) ==
    LET indices == SelectSeq(inserted, LAMBDA k : parseInt(k) # NaN)
    IN  SortAscending(indices, [i \in 1..Len(indices) |-> parseInt(indices[i])])
        \o SelectSeq(inserted, LAMBDA k : parseInt(k) = NaN)

\* Object.keys(groupEntriesByContest(es))
GroupedContests(es) ==
    ObjectKeys(FirstOccurrences([i \in 1..Len(es) |-> GroupKey(es[i])]))

\* a contest universe that forgets the contests that only have entries
ContestKeys_ResultsOnly(es, rs) ==
    FirstOccurrences(SelectSeq([i \in 1..Len(rs) |-> rs[i].contest], LAMBDA c : c # ""))

\* Array.from(allContestIds): the contests of the results (rows with a
\* contest), then those of the entries
ContestKeys(es, rs) ==
    FirstOccurrences(
        SelectSeq([i \in 1..Len(rs) |-> rs[i].contest], LAMBDA c : c # "")
        \o GroupedContests(es))

RECURSIVE LastResultOf(_, _, _)
\* resultsMap.get(contest): the last row of the contest, scanning from row k down
LastResultOf(rs, contest, k) ==
    IF k = 0 THEN NoResult
    ELSE IF rs[k].contest # "" /\ rs[k].contest = contest THEN rs[k]
    ELSE LastResultOf(rs, contest, k - 1)

resultsMapGet(rs, contest) == LastResultOf(rs, contest, Len(rs))

\* platform === 'ALL' ? 'DEFAULT' : platform
effectivePlatform(p) == IF p = "ALL" THEN "DEFAULT" ELSE p

\* scaled from 10 (line 267)
winnersBatchSize == 1

ZeroWinnerStats(p) ==
    [totalContests |-> 0, contestsWithWinners |-> 0, byTier |-> [t \in 1..5 |-> 0],
     totalWinners |-> 0, totalPrizeAwarded |-> 0, platform |-> p,
     prizePool |-> getPrizePool(effectivePlatform(p))]

\* statistics that count every entry of a bucket, valid or not
StatsWith_CountsWholeBucket(stats, contestWinners) ==
    [stats EXCEPT
        !.totalContests = @ + 1,
        !.contestsWithWinners = IF contestWinners.winningTier > 0 THEN @ + 1 ELSE @,
        !.totalPrizeAwarded =
            IF contestWinners.winningTier > 0
            THEN @ + (IF contestWinners.totalPrizeAwarded # 0
                      THEN contestWinners.totalPrizeAwarded ELSE stats.prizePool)
            ELSE @,
        !.byTier = [t \in 1..5 |-> @[t] + Len(contestWinners.byTier[t])]]

\* lines 279-291, for a contest that has a result
StatsWith(stats, contestWinners) ==
    [stats EXCEPT
        !.totalContests = @ + 1,
        !.contestsWithWinners = IF contestWinners.winningTier > 0 THEN @ + 1 ELSE @,
        !.totalPrizeAwarded =
            IF contestWinners.winningTier > 0
            THEN @ + (IF contestWinners.totalPrizeAwarded # 0
                      THEN contestWinners.totalPrizeAwarded ELSE stats.prizePool)
            ELSE @,
        !.byTier = [t \in 1..5 |-> @[t] + Len(ValidIn(contestWinners.byTier[t]))]]

\* lines 277-295: the body of the inner loop, given the contest's winners
WithContest(run, contestWinners) ==
    IF contestWinners.hasResult
    THEN [run EXCEPT !.contestResults = Append(@, contestWinners),
                     !.stats = StatsWith(@, contestWinners),
                     !.allWinners = @ \o contestWinners.winners]
    ELSE [run EXCEPT !.contestResults = Append(@, contestWinners)]

RECURSIVE WinnersBatch(_, _, _)
\* the inner loop over contestKeys.slice(i, i + batchSize), from key k to key last
WinnersBatch(run, k, last) ==
    IF k > last THEN run
    ELSE WinnersBatch(
            WithContest(run,
                calculateContestWinners(
                    EntriesOfContest(filterByPlatform(entries, run.platform),
                                     run.contestKeys[k]),
                    resultsMapGet(results, run.contestKeys[k]),
                    effectivePlatform(run.platform), run.contestKeys[k])),
            k + 1, last)

\* lines 304-318: the end of the function
Finished(run) ==
    [run EXCEPT !.pc = "done", !.i = Len(run.contestKeys),
                !.stats.totalWinners = Len(run.allWinners),
                !.contestResults =
                    SortDescending(@, [i \in 1..Len(@) |->
                        IF parseInt(@[i].contest) = NaN THEN 0 ELSE parseInt(@[i].contest)])]

\* a loop whose yield test is off by one: it yields after the last batch too
AfterBatch_YieldsAfterLast(run, after) ==
    IF run.i + winnersBatchSize <= Len(run.contestKeys)
    THEN [after EXCEPT !.pc = "yield", !.i = run.i + winnersBatchSize]
    ELSE Finished(after)

\* one turn of the outer loop at offset run.i, then the yield or the end
AfterBatch(run, after) ==
    IF run.i + winnersBatchSize < Len(run.contestKeys)
    THEN [after EXCEPT !.pc = "yield", !.i = run.i + winnersBatchSize]
    ELSE Finished(after)

WinnersTurn(run) ==
    AfterBatch(run,
        WinnersBatch(run, run.i + 1,
            IF run.i + winnersBatchSize < Len(run.contestKeys)
            THEN run.i + winnersBatchSize ELSE Len(run.contestKeys)))

\* the value calculateAllWinners resolves to
WinnersResult(run) ==
    [contestResults |-> run.contestResults, allWinners |-> run.allWinners,
     stats |-> run.stats, platform |-> run.platform]

\* a check that compares each stored hash with the hash of the other list
isWinnersCacheValid_SwappedHashes(c, es, rs) ==
    /\ c.winners.has
    /\ c.winners.entriesHash = simpleHash(rs)
    /\ c.winners.resultsHash = simpleHash(es)

isWinnersCacheValid(c, es, rs) ==
    /\ c.winners.has
    /\ c.winners.entriesHash = simpleHash(es)
    /\ c.winners.resultsHash = simpleHash(rs)

setCachedWinners(c, data, entriesHash, resultsHash) ==
    [c EXCEPT !.winners = [has |-> TRUE, data |-> data, entriesHash |-> entriesHash,
                           resultsHash |-> resultsHash]]

\* lines 216-222
UsesCachedWinners(c, p) ==
    isWinnersCacheValid(c, entries, results) /\ c.winners.data.platform = p

StartWinners(p) ==
    [pc |-> "run", platform |-> p, fromCache |-> FALSE, i |-> 0,
     contestKeys |-> ContestKeys(filterByPlatform(entries, p), results),
     contestResults |-> <<>>, allWinners |-> <<>>, stats |-> ZeroWinnerStats(p)]

FromCachedWinners(c, p) ==
    [pc |-> "done", platform |-> p, fromCache |-> TRUE, i |-> 0, contestKeys |-> <<>>,
     contestResults |-> c.winners.data.contestResults,
     allWinners |-> c.winners.data.allWinners, stats |-> c.winners.data.stats]

\* after a turn: the cache is written when the function has computed its result
WinnersCacheAfter(c, run) ==
    IF run.pc = "done" /\ ~run.fromCache
    THEN setCachedWinners(c, WinnersResult(run), simpleHash(entries), simpleHash(results))
    ELSE c

\* history: the snapshot of the computation that wrote the cache
CachedFromAfter(run) ==
    IF run.pc = "done" /\ ~run.fromCache
    THEN [has |-> TRUE, entries |-> entries, results |-> results]
    ELSE cachedFrom

\* calculateAllWinners(entries, results, p) is called: everything up to the
\* first await, or to the return when there is none
WCall(p) ==
    /\ wrun.pc \in {"idle", "done"}
    /\ platform' = p
    /\ \E next \in {IF UsesCachedWinners(cache, p) THEN FromCachedWinners(cache, p)
                     ELSE WinnersTurn(StartWinners(p))} :
            /\ wrun' = next
            /\ cache' = WinnersCacheAfter(cache, next)
            /\ cachedFrom' = CachedFromAfter(next)
    /\ UNCHANGED <<tz, entries, recharges, results, vrun, score, vother, draw,
                   currentData, query>>

\* the 5 ms timer of the yield fires: the next batch
WResume ==
    /\ wrun.pc = "yield"
    /\ \E next \in {WinnersTurn(wrun)} :
            /\ wrun' = next
            /\ cache' = WinnersCacheAfter(cache, next)
            /\ cachedFrom' = CachedFromAfter(next)
    /\ UNCHANGED <<tz, entries, recharges, results, platform, vrun, score, vother, draw,
                   currentData, query>>

-----------------------------------------------------------------------------
(* Winner snapshots                                                        *)

MaxEntries == 2
MaxResults == 2

Platforms == {"ALL", "POPN1"}

\* the winning numbers of a well-formed result, and chosen numbers with
\* 5, 4, 3 and 2 of them; Repeated has 6 positions that match
Drawn == <<1, 2, 3, 4, 5>>
Match5 == <<5, 4, 3, 2, 1>>
Match4 == <<1, 2, 3, 4, 60>>
Match3 == <<60, 1, 2, 3, 61>>
Match2 == <<1, 2, 60, 61, 62>>
Repeated == <<1, 1, 2, 2, 3, 3>>

Ticket(numbers, status, contest, p) ==
    [Entry("A", Ticket1000, Dec30, status) EXCEPT
        !.numbers = numbers, !.contest = contest, !.platform = p]

EntryShapes ==
    {Ticket(n, "PENDING", "10", "POPN1") : n \in {Match5, Match4, Match3, Match2, <<>>}}
    \cup {Ticket(Match5, "INVALID", "10", "POPN1"),
          Ticket(Match4, "REJECTED", "10", "POPN1"),
          Ticket(Repeated, "PENDING", "10", "POPN1"),
          Ticket(Match4, "PENDING", "11", "POPN1"),
          Ticket(Match5, "PENDING", "", "POPN1"),
          Ticket(Match5, "PENDING", "10", "POPLUZ")}

\* a well-formed result, a no-draw row, and a result with 4 numbers
ResultShapes ==
    {Result("10", Drawn, FALSE), Result("10", <<>>, TRUE),
     Result("10", <<1, 2, 3, 4>>, FALSE), Result("11", Drawn, FALSE)}

\* a snapshot of entries and results as the fetchers hold it, nothing computed yet
WinnerSnapshot(es, rs) ==
    /\ tz = 0
    /\ entries = NumberedEntries(es)
    /\ recharges = <<>>
    /\ results = rs
    /\ platform = "ALL"
    /\ cache = [EmptyCache EXCEPT !.entries = [has |-> TRUE, data |-> NumberedEntries(es)]]
    /\ vrun = IdleRun
    /\ wrun = IdleWinners
    /\ AtRest
    /\ score = NoScore

InitWinners ==
    \E es \in SeqsUpTo(EntryShapes, MaxEntries), rs \in SeqsUpTo(ResultShapes, MaxResults) :
        WinnerSnapshot(es, rs)

NextWinners ==
    \/ \E p \in Platforms : WCall(p)
    \/ WResume

SpecWinners == InitWinners /\ [][NextWinners]_vars

\* the most entries of one tier in a prize snapshot
MaxTierWinners == 15
MaxLowerTier == 3

\* n copies of a ticket
Copies(n, ticket) == [i \in 1..n |-> ticket]

\* contest 10 with n5 valid and x5 invalid entries of 5 matches, n4 valid
\* entries of 4 and n3 of 3; with or without a second contest that had no draw
InitPrize ==
    \E n5 \in 0..MaxTierWinners, x5 \in 0..1, n4 \in 0..MaxLowerTier, n3 \in 0..1,
       rs \in {<<Result("10", Drawn, FALSE)>>,
               <<Result("10", Drawn, FALSE), Result("11", <<>>, TRUE)>>} :
        WinnerSnapshot(
            Copies(n3, Ticket(Match3, "PENDING", "10", "POPN1"))
            \o Copies(n4, Ticket(Match4, "PENDING", "10", "POPN1"))
            \o Copies(x5, Ticket(Match5, "INVALID", "10", "POPN1"))
            \o Copies(n5, Ticket(Match5, "PENDING", "10", "POPN1")),
            rs)

SpecPrize == InitPrize /\ [][NextWinners]_vars

-----------------------------------------------------------------------------
(* Claims about the winners of a contest                                   *)

WinnersDone == wrun.pc = "done"

\* the entries in the scope of the computation, and those of a contest
InScope(e) == wrun.platform = "ALL" \/ e.platform = wrun.platform
ContestEntries(contest) ==
    {i \in 1..Len(entries) : InScope(entries[i]) /\ GroupKey(entries[i]) = contest}

\* the positions of the chosen numbers that hold a winning number
MatchCountOf(e, winningNumbers) ==
    Cardinality({i \in 1..Len(e.numbers) : e.numbers[i] \in Range(winningNumbers)})

\* the statuses that bar an entry from a prize
HasInvalidStatus(e) ==
    toUpperCase(e.status) \in {"INVALID", INVALIDO_TILDE, "REJECTED", "CANCELLED"}

\* bucket t of a contest holds an entry whose upstream status is not invalid
HasEligible(cr, t) == \E k \in 1..Len(cr.byTier[t]) : ~HasInvalidStatus(cr.byTier[t][k])

HighestEligibleTier(cr) ==
    IF HasEligible(cr, 5) THEN 5
    ELSE IF HasEligible(cr, 4) THEN 4
    ELSE IF HasEligible(cr, 3) THEN 3
    ELSE 0

C7_WinnersAreValidThreePlus ==
    WinnersDone =>
        \A c \in 1..Len(wrun.contestResults) :
            LET cr == wrun.contestResults[c]
            IN  cr.hasResult =>
                    /\ {cr.winners[k].ticketNumber : k \in 1..Len(cr.winners)}
                        = {entries[i].ticketNumber : i \in
                            {j \in ContestEntries(cr.contest) :
                                /\ ~HasInvalidStatus(entries[j])
                                /\ MatchCountOf(entries[j], cr.winningNumbers) >= 3}}
                    /\ \A k, l \in 1..Len(cr.winners) :
                        /\ k # l => cr.winners[k].ticketNumber # cr.winners[l].ticketNumber
                        /\ k < l => cr.winners[k].matches >= cr.winners[l].matches
                    /\ \A k \in 1..Len(cr.winners) : \E i \in ContestEntries(cr.contest) :
                        /\ entries[i].ticketNumber = cr.winners[k].ticketNumber
                        /\ cr.winners[k].matches
                            = MatchCountOf(entries[i], cr.winningNumbers)

\* two winners of a contest, the one with more matches entered later
C7_Witness ==
    /\ WinnersDone
    /\ \E c \in 1..Len(wrun.contestResults) :
        /\ wrun.contestResults[c].hasResult
        /\ Len(wrun.contestResults[c].winners) = 2
        /\ wrun.contestResults[c].winners[1].ticketNumber = "2"
        /\ wrun.contestResults[c].winners[1].matches
            > wrun.contestResults[c].winners[2].matches

\* a contest without a usable row in the results: none at all, or only
\* no-draw rows and rows that do not have exactly 5 numbers
NoUsableRow(contest) ==
    \A k \in 1..Len(results) :
        results[k].contest = contest =>
            results[k].isNoDraw \/ Len(results[k].numbers) # 5

EligibleCount(cr, t) ==
    Cardinality({k \in 1..Len(cr.byTier[t]) : ~HasInvalidStatus(cr.byTier[t][k])})

RECURSIVE TierTotal(_, _)
\* the valid entries with t matches in the first c contest results that have a result
TierTotal(t, c) ==
    IF c = 0 THEN 0
    ELSE TierTotal(t, c - 1)
         + (IF wrun.contestResults[c].hasResult
            THEN EligibleCount(wrun.contestResults[c], t) ELSE 0)

\* C8: a contest with no result, a no-draw result or a result that does not
\* have exactly 5 numbers gets hasResult = FALSE, winningTier = 0, no winners
\* and totalEntries = its entry count; none of its entries is in allWinners,
\* and the tier and prize statistics count the contests with a result only.
C8_NoResultNoWinners ==
    WinnersDone =>
        /\ \A i \in 1..Len(entries) :
            InScope(entries[i]) =>
                \E c \in 1..Len(wrun.contestResults) :
                    wrun.contestResults[c].contest = GroupKey(entries[i])
        /\ \A c \in 1..Len(wrun.contestResults) :
            LET cr == wrun.contestResults[c]
            IN  NoUsableRow(cr.contest) =>
                    /\ ~cr.hasResult
                    /\ cr.winningTier = 0
                    /\ cr.winners = <<>>
                    /\ cr.totalEntries = Cardinality(ContestEntries(cr.contest))
                    /\ \A k \in 1..Len(wrun.allWinners) :
                            GroupKey(wrun.allWinners[k]) # cr.contest
        /\ wrun.stats.totalContests
            = Cardinality({c \in 1..Len(wrun.contestResults) :
                                wrun.contestResults[c].hasResult})
        /\ wrun.stats.totalPrizeAwarded
            = wrun.stats.prizePool
              * Cardinality({c \in 1..Len(wrun.contestResults) :
                    wrun.contestResults[c].hasResult
                    /\ wrun.contestResults[c].winningTier > 0})
        /\ \A t \in 1..5 :
            wrun.stats.byTier[t] = TierTotal(t, Len(wrun.contestResults))
        /\ wrun.stats.totalWinners = Len(wrun.allWinners)

\* a contest whose only result has 4 numbers, 3 of them chosen by an entry
C8_Witness ==
    /\ WinnersDone
    /\ \E c \in 1..Len(wrun.contestResults), k \in 1..Len(results) :
        /\ NoUsableRow(wrun.contestResults[c].contest)
        /\ results[k].contest = wrun.contestResults[c].contest
        /\ Len(results[k].numbers) = 4
        /\ \E i \in ContestEntries(results[k].contest) :
                MatchCountOf(entries[i], results[k].numbers) >= 3

-----------------------------------------------------------------------------
(* Claims about the prize                                                  *)

\* the exact product <<p2, d1, d0>> (p2 has extra digits above the high
\* limb) of exponent exp, shifted down by the extra digits and rounded
Rounded(p2, d1, d0, exp, extra) ==
    RoundNearestEven(
        [zero |-> FALSE, exp |-> exp + extra,
         sig |-> <<p2 \div 2 ^ extra,
                   ((p2 % 2 ^ extra) * Limb + d1) \div 2 ^ extra,
                   ((d1 % 2 ^ extra) * Limb + d0) \div 2 ^ extra>>],
        2 * (d0 % 2 ^ extra), 2 ^ extra)

\* limb by limb with the carries: the product of the significand and n
Product(sig, n, exp) ==
    LET p0 == sig[3] * n
        p1 == sig[2] * n + p0 \div Limb
        p2 == sig[1] * n + p1 \div Limb
    IN  Rounded(p2, p1 % Limb, p0 % Limb, exp, BitLength(p2) - HighLimbBits)

\* x * n in JavaScript for a double x >= 0 and an integer n > 0
Times(x, n) == IF x.zero THEN DoubleZero ELSE Product(x.sig, n, x.exp)

\* two doubles at most one unit in the last place apart
WithinOneUlp(x, y) == x = y \/ NextUp(x) = y \/ NextUp(y) = x

C6_PrizeTimesWinnersIsPool ==
    WinnersDone =>
        \A c \in 1..Len(wrun.contestResults) :
            LET cr == wrun.contestResults[c]
            IN  cr.hasResult =>
                    /\ cr.winningTier > 0 =>
                        /\ Times(cr.prizePerWinner, EligibleCount(cr, cr.winningTier))
                            = DoubleOf(cr.prizePool)
                        /\ cr.totalPrizeAwarded = cr.prizePool
                    /\ cr.winningTier = 0 =>
                        /\ cr.prizePerWinner = DoubleZero
                        /\ cr.totalPrizeAwarded = 0

\* C6 amended: prizePerWinner times the valid entries of the winning tier is
\* prizePool to within one unit in the last place, and exactly prizePool is
\* awarded, when there is a winning tier; both are 0 when there is none.
C6_PrizeTimesWinnersNearPool ==
    WinnersDone =>
        \A c \in 1..Len(wrun.contestResults) :
            LET cr == wrun.contestResults[c]
            IN  cr.hasResult =>
                    /\ cr.winningTier > 0 =>
                        /\ WithinOneUlp(
                             Times(cr.prizePerWinner, EligibleCount(cr, cr.winningTier)),
                             DoubleOf(cr.prizePool))
                        /\ cr.totalPrizeAwarded = cr.prizePool
                    /\ cr.winningTier = 0 =>
                        /\ cr.prizePerWinner = DoubleZero
                        /\ cr.totalPrizeAwarded = 0

\* a winning tier whose split does not multiply back to the pool, beside
\* an invalid entry in the same bucket
C6_Witness ==
    /\ WinnersDone
    /\ \E c \in 1..Len(wrun.contestResults) :
        LET cr == wrun.contestResults[c]
        IN  /\ cr.hasResult
            /\ cr.winningTier > 0
            /\ EligibleCount(cr, cr.winningTier) < Len(cr.byTier[cr.winningTier])
            /\ Times(cr.prizePerWinner, EligibleCount(cr, cr.winningTier))
                # DoubleOf(cr.prizePool)

-----------------------------------------------------------------------------
(* Claims about the validation of one ticket                               *)

\* the recharges on record for the owner of a ticket, and that owner's tickets
OwnRecharges(ticket) == SelectSeq(recharges, LAMBDA r : r.gameId = ticket.gameId)
OwnTickets(ticket) == SelectSeq(entries, LAMBDA e : e.gameId = ticket.gameId)

\* C11: a ticket without a trusted upstream status is INVALID when its owner
\* id is empty, INVALID when its owner has no recharge on record, and
\* otherwise VALID with the recharge findMatchingRecharge returns, or
\* INVALID without a recharge when that is null.
C11_OutcomeFollowsMatcher ==
    Done =>
        \A k \in 1..Len(vrun.results) :
            LET ticket == entries[k]
            IN  NoUpstreamStatus(ticket) =>
                    IF ticket.gameId = "" \/ OwnRecharges(ticket) = <<>>
                    THEN /\ Outcome(k).status = ValidationStatus.INVALID
                         /\ Outcome(k).matchedRecharge = NoRecharge
                    ELSE IF findMatchingRecharge(ticket, OwnRecharges(ticket),
                                                 OwnTickets(ticket)) # NoRecharge
                    THEN /\ Outcome(k).status = ValidationStatus.VALID
                         /\ Outcome(k).matchedRecharge
                                = findMatchingRecharge(ticket, OwnRecharges(ticket),
                                                       OwnTickets(ticket))
                    ELSE /\ Outcome(k).status = ValidationStatus.INVALID
                         /\ Outcome(k).matchedRecharge = NoRecharge

\* a ticket matched to a recharge beside a ticket of an owner without one
C11_Witness ==
    /\ Done
    /\ \E i, j \in 1..Len(vrun.results) :
        /\ MatchedValid(i)
        /\ entries[j].gameId # ""
        /\ OwnRecharges(entries[j]) = <<>>
        /\ Outcome(j).status = ValidationStatus.INVALID

-----------------------------------------------------------------------------
(* The dashboard: validations and winner calculations in flight together   *)

\* a second validateAllTickets(entries, recharges, skipCache) is called while
\* the first may be waiting at a yield
VOtherCall(skipCache) ==
    /\ vother.pc = "idle"
    /\ LET start == [IdleRun EXCEPT !.skipCache = skipCache,
                                    !.stats = [ZeroStats EXCEPT !.total = Len(entries)]]
       IN  \E next \in {IF UsesCachedValidation(cache, skipCache)
                         THEN [start EXCEPT !.pc = "done", !.fromCache = TRUE,
                                            !.results = cache.validation.data.results,
                                            !.stats = cache.validation.data.stats]
                         ELSE BatchTurn(start)} :
                /\ vother' = next
                /\ cache' = CacheAfter(cache, next)
    /\ UNCHANGED <<tz, entries, recharges, results, platform, vrun, wrun, score,
                   cachedFrom, draw, currentData, query>>

\* the timer of the second invocation's yield fires
VOtherResume ==
    /\ vother.pc = "yield"
    /\ \E next \in {BatchTurn(vother)} :
            /\ vother' = next
            /\ cache' = CacheAfter(cache, next)
    /\ UNCHANGED <<tz, entries, recharges, results, platform, vrun, wrun, score,
                   cachedFrom, draw, currentData, query>>

\* DataFetcher.clearCache
clearCache ==
    /\ cache' = EmptyCache
    /\ cachedFrom' = NoSnapshot
    /\ UNCHANGED <<tz, entries, recharges, results, platform, vrun, wrun, score, vother,
                   draw, currentData, query>>

\* tickets that carry what both computations read: a well-formed pair, a
\* ticket without owner and contest, and one with an unparseable timestamp
DashboardTicketShapes ==
    {[Entry("A", Ticket1000, Dec30, "PENDING") EXCEPT !.numbers = Match5, !.contest = "10"],
     [Entry("A", Ticket1130, Dec30, "PENDING") EXCEPT !.numbers = Match4, !.contest = "10"],
     [Entry("", Ticket1000, Dec30, "PENDING") EXCEPT !.numbers = Match3],
     [Entry("A", InvalidDate, EmptyString, "PENDING") EXCEPT !.contest = "11"]}

DashboardRechargeShapes == {Recharge("A", Recharge0900), Recharge("A", InvalidDate)}

\* a well-formed result, a no-draw row and a row with 4 numbers; a contest
\* without a row has no result at all
DashboardResultShapes ==
    {Result("10", Drawn, FALSE), Result("10", <<>>, TRUE), Result("11", <<1, 2, 3, 4>>, FALSE)}

\* the dashboard runs on a host in Brazil time
InitDashboard ==
    /\ tz = 0
    /\ \E shapes \in SeqsUpTo(DashboardTicketShapes, MaxTickets) :
            entries = NumberedEntries(shapes)
    /\ \E shapes \in SeqsUpTo(DashboardRechargeShapes, MaxRecharges) :
            recharges = NumberedRecharges(shapes)
    /\ results \in SeqsUpTo(DashboardResultShapes, MaxResults)
    /\ platform \in Platforms
    /\ cache = [EmptyCache EXCEPT !.entries = [has |-> TRUE, data |-> entries]]
    /\ vrun = IdleRun
    /\ wrun = IdleWinners
    /\ score = NoScore
    /\ AtRest

\* the page's handlers, in any order: loadAllData validates, renderWinners
\* calculates, both for the current platform; the timers of the yields; the
\* cache is cleared
NextDashboard ==
    \/ VCall(platform # "ALL")
    \/ VResume
    \/ VOtherCall(platform # "ALL")
    \/ VOtherResume
    \/ WCall(platform)
    \/ WResume
    \/ clearCache

SpecDashboard == InitDashboard /\ [][NextDashboard]_vars

-----------------------------------------------------------------------------
(* Claims about validateAllTickets                                         *)

\* the same snapshot validated in one pass, without a yield
SynchronousRun ==
    ValidateBatch([IdleRun EXCEPT !.stats = [ZeroStats EXCEPT !.total = Len(entries)]],
                  1, Len(entries))

\* C12: whatever runs at the yields (the timers of a second validation, a
\* winner calculation, a cleared cache), a validation that has computed its
\* result has the outcomes and the statistics of the one-pass validation
\* of the same snapshot.
C12_BatchedEqualsSynchronous ==
    /\ (vrun.pc = "done" /\ ~vrun.fromCache) =>
            /\ vrun.results = SynchronousRun.results
            /\ vrun.stats = SynchronousRun.stats
    /\ (vother.pc = "done" /\ ~vother.fromCache) =>
            /\ vother.results = SynchronousRun.results
            /\ vother.stats = SynchronousRun.stats

\* a validation of two tickets finished after a second validation and a
\* winner calculation were started at its yield
C12_Witness ==
    /\ vrun.pc = "done"
    /\ Len(vrun.results) = 2
    /\ vother.pc = "yield"
    /\ wrun.pc # "idle"
    /\ \E k \in 1..2 : MatchedValid(k)

\* C13: a finished validation holds one outcome for each ticket, in the
\* order of the tickets; total is the number of tickets, valid + invalid +
\* unknown = total and cutoff <= total; at a yield valid + invalid + unknown
\* is the number of outcomes produced so far.
C13_OneOutcomePerTicket ==
    /\ Done =>
            /\ Len(vrun.results) = Len(entries)
            /\ \A k \in 1..Len(vrun.results) : Outcome(k).ticket = entries[k]
            /\ vrun.stats.total = Len(entries)
            /\ vrun.stats.valid + vrun.stats.invalid + vrun.stats.unknown
                    = vrun.stats.total
            /\ vrun.stats.cutoff <= vrun.stats.total
    /\ vrun.pc = "yield" =>
            vrun.stats.valid + vrun.stats.invalid + vrun.stats.unknown = Len(vrun.results)

\* two tickets validated across a yield: one VALID, one INVALID, one of
\* them flagged as registered after the cutoff
C13_Witness ==
    /\ Done
    /\ Len(vrun.results) = 2
    /\ vrun.stats.valid = 1
    /\ vrun.stats.invalid = 1
    /\ vrun.stats.cutoff = 1

-----------------------------------------------------------------------------
(* Claims about the winners cache                                          *)

\* C14: when calculateAllWinners has returned and is called again with the
\* same entries, results and scope, nothing else in between, the second call
\* is answered from the cache, computes no contest, and returns what the
\* first returned.
C14_SecondCallFromCache ==
    [][(wrun.pc = "done" /\ platform' = platform)
        => /\ wrun'.pc = "done"
           /\ wrun'.fromCache
           /\ WinnersResult(wrun') = WinnersResult(wrun)]_vars

\* a result of two contests, computed across a yield, returned again from
\* the cache
C14_Witness ==
    /\ WinnersDone
    /\ wrun.fromCache
    /\ Len(wrun.contestResults) = 2
    /\ Len(wrun.allWinners) > 0

\* fetchEntries: the sheet is read again and the snapshot replaced (line
\* 1746); the arrays of an invocation in flight are not replaced under it
fetchEntries(sheet) ==
    /\ wrun.pc \in {"idle", "done"}
    /\ vrun.pc # "yield"
    /\ vother.pc # "yield"
    /\ entries' = sheet
    /\ cache' = [cache EXCEPT !.entries = [has |-> TRUE, data |-> sheet]]
    /\ UNCHANGED <<tz, recharges, results, platform, vrun, wrun, score, vother,
                   cachedFrom, draw, currentData, query>>

\* ResultsFetcher.fetchResults: the results sheet is read again
fetchResults(sheet) ==
    /\ wrun.pc \in {"idle", "done"}
    /\ results' = sheet
    /\ UNCHANGED <<tz, entries, recharges, platform, cache, vrun, wrun, score, vother,
                   cachedFrom, draw, currentData, query>>

\* the most rows of the entries sheet between two fetches
MaxSheetRows == 3

\* rows of the entries sheet: a ticket of 5 matches, pending or invalid
SheetRowShapes ==
    {Ticket(Match5, "PENDING", "10", "POPN1"), Ticket(Match5, "INVALID", "10", "POPN1")}

\* rows of the results sheet: contest 10 with its numbers, or with another
\* draw's numbers; contest 11
SheetResultShapes ==
    {Result("10", Drawn, FALSE), Result("10", <<1, 2, 3, 4, 60>>, FALSE),
     Result("11", Drawn, FALSE)}

\* fetchResults sorts the rows by contest number descending (lines 198-203)
SortedByContest(rs) ==
    SortDescending(rs, [i \in 1..Len(rs) |->
        IF parseInt(rs[i].contest) = NaN THEN 0 ELSE parseInt(rs[i].contest)])

\* what the fetchers deliver; fetchEntries sorts by timestamp descending,
\* which keeps the order of rows registered at the same time
EntrySheets == {NumberedEntries(rows) : rows \in SeqsUpTo(SheetRowShapes, MaxSheetRows)}
ResultSheets == {SortedByContest(rs) : rs \in SeqsUpTo(SheetResultShapes, MaxResults)}

InitRefresh ==
    /\ tz = 0
    /\ entries \in EntrySheets
    /\ recharges = <<>>
    /\ results \in ResultSheets
    /\ platform = "ALL"
    /\ cache = [EmptyCache EXCEPT !.entries = [has |-> TRUE, data |-> entries]]
    /\ vrun = IdleRun
    /\ wrun = IdleWinners
    /\ score = NoScore
    /\ AtRest

NextRefresh ==
    \/ WCall("ALL")
    \/ WResume
    \/ \E sheet \in EntrySheets : fetchEntries(sheet)
    \/ \E sheet \in ResultSheets : fetchResults(sheet)

SpecRefresh == InitRefresh /\ [][NextRefresh]_vars

\* C15: a call of calculateAllWinners is answered from the cache only when
\* its entries and results are, record for record, those of the computation
\* that was cached.
C15_ChangedSnapshotNotFromCache ==
    (wrun.pc \in {"idle", "done"} /\ UsesCachedWinners(cache, "ALL"))
        => (cachedFrom.entries = entries /\ cachedFrom.results = results)

-----------------------------------------------------------------------------
(* Claims about the contests and the statistics of calculateAllWinners     *)

\* the contest ids of the results, and those of the entries in scope
ResultContestIds == {results[k].contest : k \in 1..Len(results)} \ {""}
EntryContestIds == {entries[i].contest : i \in {j \in 1..Len(entries) : InScope(entries[j])}} \ {""}

\* the entries in scope that name no contest (grouped under 'Unknown')
HasUnnamedContest == \E i \in 1..Len(entries) : InScope(entries[i]) /\ entries[i].contest = ""

OutputContestIds == {wrun.contestResults[c].contest : c \in 1..Len(wrun.contestResults)}

\* each contest of the output once; a contest without a row in the results
\* has hasResult = FALSE
OncePerContest ==
    /\ \A c, d \in 1..Len(wrun.contestResults) :
            c # d => wrun.contestResults[c].contest # wrun.contestResults[d].contest
    /\ \A c \in 1..Len(wrun.contestResults) :
            wrun.contestResults[c].contest \notin ResultContestIds
                => ~wrun.contestResults[c].hasResult

\* C16 as claimed: the output has one ContestWinnerSet for each contest id of
\* the results or of the entries in scope and none for any other id; a
\* contest with entries and no posted result has hasResult = FALSE.
C16_OneSetPerContestId ==
    WinnersDone =>
        /\ OutputContestIds = ResultContestIds \cup EntryContestIds
        /\ OncePerContest

\* C16 amended: the same, with one more ContestWinnerSet under the id
\* 'Unknown' when an entry in scope names no contest.
C16_OneSetPerContestIdOrUnknown ==
    WinnersDone =>
        /\ OutputContestIds
            = ResultContestIds \cup EntryContestIds
              \cup (IF HasUnnamedContest THEN {"Unknown"} ELSE {})
        /\ OncePerContest

\* a contest that has an entry and no row in the results, beside a contest
\* that has a result
C16_Witness ==
    /\ WinnersDone
    /\ \E c, d \in 1..Len(wrun.contestResults) :
        /\ wrun.contestResults[c].contest \in EntryContestIds \ ResultContestIds
        /\ ~wrun.contestResults[c].hasResult
        /\ wrun.contestResults[d].hasResult

\* the contests of the output that have a result, and those with a winner
WithResult == {c \in 1..Len(wrun.contestResults) : wrun.contestResults[c].hasResult}
WithWinner == {c \in WithResult : wrun.contestResults[c].winningTier > 0}

\* the entries in scope with a valid status and t matches in a contest
\* that has a result
ValidInTier(t) ==
    {i \in 1..Len(entries) :
        /\ InScope(entries[i])
        /\ ~HasInvalidStatus(entries[i])
        /\ \E c \in WithResult :
            /\ wrun.contestResults[c].contest = GroupKey(entries[i])
            /\ MatchCountOf(entries[i], wrun.contestResults[c].winningNumbers) = t}

\* the statistics when the contests are processed in the order keys
StatsInOrder(keys) ==
    Finished(WinnersBatch([StartWinners(wrun.platform) EXCEPT !.contestKeys = keys],
                          1, Len(keys))).stats

\* C17: totalContests counts the contests with a result,
\* contestsWithWinners those with a winning tier, totalWinners the list
\* allWinners, totalPrizeAwarded is prizePool times contestsWithWinners,
\* byTier[k] counts the valid entries of tier k in the contests with a
\* result; and every order of processing the contests gives these
\* statistics.
C17_StatsCountContestsAndTiers ==
    WinnersDone =>
        /\ wrun.stats.totalContests = Cardinality(WithResult)
        /\ wrun.stats.contestsWithWinners = Cardinality(WithWinner)
        /\ wrun.stats.totalWinners = Len(wrun.allWinners)
        /\ wrun.stats.totalPrizeAwarded
            = wrun.stats.prizePool * wrun.stats.contestsWithWinners
        /\ \A t \in 1..5 : wrun.stats.byTier[t] = Cardinality(ValidInTier(t))
        /\ \A keys \in Rearrangements(
                ContestKeys(filterByPlatform(entries, wrun.platform), results)) :
                StatsInOrder(keys) = wrun.stats

\* two contests with a winner each, processed in ascending order and
\* listed in descending order
C17_Witness ==
    /\ WinnersDone
    /\ ~wrun.fromCache
    /\ wrun.contestKeys = <<"10", "11">>
    /\ wrun.contestResults[1].contest = "11"
    /\ wrun.stats.contestsWithWinners = 2

-----------------------------------------------------------------------------
(* The draw calendar: calls of getEligibleDrawDate and getNextValidDrawDate *)

\* one call of getEligibleDrawDate(registrationTime)
EligibleDrawCall ==
    /\ draw.pc = "args"
    /\ draw.fn = "getEligibleDrawDate"
    /\ draw' = [draw EXCEPT !.pc = "returned", !.result = getEligibleDrawDate(draw.arg)]
    /\ UNCHANGED <<tz, entries, recharges, results, platform, cache, vrun, wrun, score,
                   vother, cachedFrom, currentData, query>>

\* one call of getNextValidDrawDate(fromDate)
NextValidDrawCall ==
    /\ draw.pc = "args"
    /\ draw.fn = "getNextValidDrawDate"
    /\ draw' = [draw EXCEPT !.pc = "returned", !.result = getNextValidDrawDate(draw.arg)]
    /\ UNCHANGED <<tz, entries, recharges, results, platform, cache, vrun, wrun, score,
                   vother, cachedFrom, currentData, query>>

\* the days the calls are drawn from: 2025-01-02 .. 2026-12-02, which holds
\* every weekday next to every holiday
FirstDay == 1
LastDay == 700

\* hours around both cutoffs and around midnight, in Brazil time
SampleHours == {0, 2, 12, 15, 16, 19, 20, 22, 23}

InitCalendar ==
    /\ tz \in HostOffsets
    /\ entries = <<>>
    /\ recharges = <<>>
    /\ results = <<>>
    /\ platform = "ALL"
    /\ cache = EmptyCache
    /\ vrun = IdleRun
    /\ wrun = IdleWinners
    /\ score = NoScore
    /\ vother = IdleRun
    /\ cachedFrom = NoSnapshot
    /\ currentData = NoCurrentData
    /\ query = NoQuery
    /\ \E fn \in {"getEligibleDrawDate", "getNextValidDrawDate"},
          arg \in {d * MinutesPerDay + h * MinutesPerHour + m :
                        d \in FirstDay..LastDay, h \in SampleHours, m \in {0, 59}}
                  \cup {InvalidDate} :
            /\ fn = "getNextValidDrawDate" => arg # InvalidDate
            /\ draw = [pc |-> "args", fn |-> fn, arg |-> arg, result |-> InvalidDate]

NextCalendar == EligibleDrawCall \/ NextValidDrawCall

SpecCalendar == InitCalendar /\ [][NextCalendar]_vars

\* the calendar of the draws, by day number: Sunday, Dec 25 and Jan 1 have
\* no draw; Dec 24 and Dec 31 close at 16, the other days at 20
NoDrawOn(n) ==
    \/ (EpochWeekday + n) % 7 = 0
    \/ (CalendarDate(n).m = 11 /\ CalendarDate(n).d = 25)
    \/ (CalendarDate(n).m = 0 /\ CalendarDate(n).d = 1)
CutoffHourOn(n) ==
    IF CalendarDate(n).m = 11 /\ CalendarDate(n).d \in {24, 31} THEN 16 ELSE 20

\* C18: for a valid registration timestamp getEligibleDrawDate returns the
\* registration's own calendar day when that is a draw day and the
\* registration hour is before the day's cutoff hour, and otherwise
\* getNextValidDrawDate of the next day; for an invalid timestamp, null.
\* Day and hour are those of Brazil time, and the day returned is read as
\* the matcher reads it, with getBrazilDateString.
C18_EligibleDrawIsOwnDayBeforeCutoff ==
    (draw.pc = "returned" /\ draw.fn = "getEligibleDrawDate") =>
        IF draw.arg = InvalidDate THEN draw.result = InvalidDate
        ELSE LET day == draw.arg \div MinutesPerDay
                 hour == (draw.arg \div MinutesPerHour) % 24
             IN  /\ IsValidDate(draw.result)
                 /\ getBrazilDateString(draw.result)
                        = getBrazilDateString(
                            IF ~NoDrawOn(day) /\ hour < CutoffHourOn(day)
                            THEN day * MinutesPerDay
                            ELSE getNextValidDrawDate((day + 1) * MinutesPerDay))

\* C19: getNextValidDrawDate returns midnight of the first day, from the day
\* of fromDate on, that has a draw; that day is among the 14 it examines, so
\* it never raises.  Days are those of the host's calendar.
C19_NextValidDrawIsFirstDrawDay ==
    (draw.pc = "returned" /\ draw.fn = "getNextValidDrawDate") =>
        /\ draw.result # RangeError
        /\ \E n \in LocalDay(draw.arg)..(LocalDay(draw.arg) + SearchHorizon - 1) :
            /\ draw.result = LocalMidnight(n)
            /\ ~NoDrawOn(n)
            /\ \A k \in LocalDay(draw.arg)..(n - 1) : NoDrawOn(k)

\* from Thursday 2026-01-01, a holiday: the draw is on Friday
C19_Witness ==
    /\ draw.pc = "returned"
    /\ draw.fn = "getNextValidDrawDate"
    /\ LocalDay(draw.arg) = DayNumber(2026, 1, 1)
    /\ draw.result = LocalMidnight(DayNumber(2026, 1, 2))

-----------------------------------------------------------------------------
(* Claims about malformed records                                          *)

\* the records of the snapshot that are malformed
MalformedTickets ==
    {i \in 1..Len(entries) : ~IsValidDate(entries[i].parsedDate) \/ entries[i].gameId = ""}

MalformedRecharges ==
    {j \in 1..Len(recharges) : ~IsValidDate(recharges[j].rechargeTime)}

UnusableResults ==
    {k \in 1..Len(results) : results[k].isNoDraw \/ Len(results[k].numbers) # 5}

\* the contests that have tickets of the platform and no row of results
ContestsWithoutResult == EntryContestIds \ ResultContestIds

\* a finished validation has one outcome for each ticket, in the order of the tickets
OutcomeForEveryTicket(run) ==
    run.pc = "done" =>
        /\ Len(run.results) = Len(entries)
        /\ \A k \in 1..Len(run.results) :
                /\ run.results[k].ticket = entries[k]
                /\ run.results[k].status
                        \in {ValidationStatus.VALID, ValidationStatus.INVALID,
                             ValidationStatus.UNKNOWN}

\* a finished calculation has one set for each contest of the results and
\* of the platform's tickets
OutcomeForEveryContest ==
    WinnersDone =>
        \A keys \in {ContestKeys(filterByPlatform(entries, wrun.platform), results)} :
            /\ Len(wrun.contestResults) = Len(keys)
            /\ \A c \in 1..Len(keys) :
                    \E d \in 1..Len(wrun.contestResults) :
                        wrun.contestResults[d].contest = keys[c]

\* C20: whatever malformed records the snapshot holds (tickets without a
\* parseable timestamp or without an owner, recharges with an invalid time,
\* contests without a result, no-draw rows, rows without exactly 5 numbers),
\* validateAllTickets and calculateAllWinners never raise, and when they
\* have finished there is an outcome for every ticket and for every contest.
C20_BadRecordsNeverAbort ==
    /\ vrun.pc \in {"idle", "yield", "done"}
    /\ vother.pc \in {"idle", "yield", "done"}
    /\ wrun.pc \in {"idle", "yield", "done"}
    /\ OutcomeForEveryTicket(vrun)
    /\ OutcomeForEveryTicket(vother)
    /\ OutcomeForEveryContest

\* both functions have finished on a snapshot with a ticket without a
\* timestamp whose owner has recharges, a ticket without an owner, a recharge
\* with an invalid time, a row of results that cannot be used and a contest
\* without any row
C20_Witness ==
    /\ Done
    /\ WinnersDone
    /\ \E i \in MalformedTickets :
            /\ ~IsValidDate(entries[i].parsedDate)
            /\ Len(ByGameId(recharges, entries[i].gameId)) > 0
    /\ \E i \in MalformedTickets : entries[i].gameId = ""
    /\ MalformedRecharges # {}
    /\ UnusableResults # {}
    /\ ContestsWithoutResult # {}

-----------------------------------------------------------------------------
(* Claims about the recharge matcher                                       *)

\* the snapshots of tickets and recharges the validator's model draws from
TicketSnapshots == {NumberedEntries(shapes) : shapes \in SeqsUpTo(TicketShapes, MaxTickets)}
RechargeSnapshots ==
    {NumberedRecharges(shapes) : shapes \in SeqsUpTo(RechargeShapes, MaxRecharges)}

\* both outcomes are VALID with the same matched recharge
SameRechargeFunds(vi, vj) ==
    /\ vi.status = ValidationStatus.VALID
    /\ vj.status = ValidationStatus.VALID
    /\ vi.matchedRecharge # NoRecharge
    /\ vi.matchedRecharge = vj.matchedRecharge

\* in the snapshot (es, rs) one recharge is the matched recharge of two VALID
\* tickets of one owner whose normalized draw dates differ
FundsTwoWindows(es, rs) ==
    \E i, j \in 1..Len(es) :
        /\ i < j
        /\ es[i].gameId = es[j].gameId
        /\ NormalizeDrawDate(es[i].drawDate) # NormalizeDrawDate(es[j].drawDate)
        /\ SameRechargeFunds(validateTicket(es[i], rs, es), validateTicket(es[j], rs, es))

\* C21 (as stated): there is a snapshot in which one recharge is the
\* matchedRecharge of two VALID tickets of the same owner whose normalized
\* draw dates differ.
C21_RechargeFundsTwoWindows ==
    \E es \in TicketSnapshots, rs \in RechargeSnapshots : FundsTwoWindows(es, rs)

\* C21 (amended): a recharge funds tickets of one draw window only: two VALID
\* tickets with the same matched recharge have the same normalized draw
\* date, the eligible draw date of the recharge.
C21_RechargeFundsOneWindow ==
    Done =>
        \A i, j \in 1..Len(vrun.results) :
            SameRechargeFunds(Outcome(i), Outcome(j)) =>
                /\ NormalizeDrawDate(Outcome(i).ticket.drawDate)
                        = EligibleDrawStr(Outcome(i).matchedRecharge.rechargeTime)
                /\ NormalizeDrawDate(Outcome(j).ticket.drawDate)
                        = EligibleDrawStr(Outcome(i).matchedRecharge.rechargeTime)

\* two tickets of one owner declare different draw dates and the owner has
\* one recharge before both: the recharge funds one of them, the other is
\* INVALID
C21_Witness ==
    /\ Done
    /\ Len(vrun.results) = 2
    /\ entries[1].gameId = entries[2].gameId
    /\ NormalizeDrawDate(entries[1].drawDate) # NormalizeDrawDate(entries[2].drawDate)
    /\ \E r \in 1..Len(recharges) :
            /\ RechargesOf(entries[1].gameId) = {r}
            /\ IsValidDate(recharges[r].rechargeTime)
            /\ recharges[r].rechargeTime < entries[1].parsedDate
            /\ recharges[r].rechargeTime < entries[2].parsedDate
    /\ \E k \in 1..2 : MatchedValid(k)
    /\ \E k \in 1..2 : Outcome(k).status = ValidationStatus.INVALID

\* the ticket's draw date as YYYY-MM-DD, whichever of the two orders it is
\* written in
DrawDateYMD(drawDate) ==
    IF drawDate = EmptyString THEN EmptyString
    ELSE DateString("YMD", "-", drawDate.y, drawDate.m, drawDate.d, TRUE)

\* the recharge is claimed by a prior ticket: another ticket of the owner,
\* registered strictly between the recharge and this ticket, maps to the
\* recharge's eligible draw date
ClaimedByPrior(ticket, recharge, ts) ==
    \E p \in 1..Len(ts) :
        /\ ts[p].ticketNumber # ticket.ticketNumber
        /\ IsValidDate(ts[p].parsedDate)
        /\ ts[p].parsedDate > recharge.rechargeTime
        /\ ts[p].parsedDate < ticket.parsedDate
        /\ EligibleDrawStr(ts[p].parsedDate) = EligibleDrawStr(recharge.rechargeTime)

\* the recharges of rs the ticket may be funded by
Fundable(ticket, rs, ts) ==
    {j \in 1..Len(rs) :
        /\ IsValidDate(rs[j].rechargeTime)
        /\ rs[j].rechargeTime < ticket.parsedDate
        /\ EligibleDrawStr(rs[j].rechargeTime) = DrawDateYMD(ticket.drawDate)
        /\ ~ClaimedByPrior(ticket, rs[j], ts)}

\* found is what the claim says findMatchingRecharge(ticket, rs, ts) returns
IsExpectedMatch(found, ticket, rs, ts) ==
    IF ~IsValidDate(ticket.parsedDate) \/ Len(rs) = 0 THEN found = NoRecharge
    ELSE \A fundable \in {Fundable(ticket, rs, ts)} :
            IF fundable = {} THEN found = NoRecharge
            ELSE /\ \E j \in fundable : found = rs[j]
                 /\ \A j \in fundable : rs[j].rechargeTime <= found.rechargeTime

\* C22: for every ticket of the snapshot, findMatchingRecharge over the
\* owner's recharges and tickets returns null when the ticket's timestamp is
\* invalid or the owner has no recharges, and otherwise the most recent
\* recharge that is strictly earlier than the ticket, whose eligible draw
\* date is the ticket's draw date as YYYY-MM-DD and that no prior ticket has
\* claimed, null when there is none.
C22_MatcherReturnsMostRecentFundable ==
    \A k \in 1..Len(entries) :
        IsExpectedMatch(
            findMatchingRecharge(entries[k], ByGameId(recharges, entries[k].gameId),
                                 ByGameId(entries, entries[k].gameId)),
            entries[k], ByGameId(recharges, entries[k].gameId),
            ByGameId(entries, entries[k].gameId))

\* a validated ticket whose owner has two recharges the ticket may be funded
\* by, at different times: the matcher has returned the later one
C22_Witness ==
    /\ Done
    /\ \E k \in 1..Len(vrun.results) :
            /\ MatchedValid(k)
            /\ Outcome(k).matchedRecharge.rechargeTime = Recharge1030
            /\ \E j \in Fundable(entries[k], recharges, ByGameId(entries, entries[k].gameId)) :
                    /\ recharges[j].gameId = entries[k].gameId
                    /\ recharges[j].rechargeTime = Recharge0900

-----------------------------------------------------------------------------
(* Several recharges and several tickets in one draw window                *)

Ticket1200 == At(2025, 12, 30, 12, 0)

\* tickets of Tuesday 2025-12-30 that declare that day's draw
WindowTicketShapes ==
    {Entry("A", t, Dec30, "PENDING") :
        t \in {Ticket1000, Ticket1130, Ticket1200, Ticket2100}}
    \cup {Entry("B", Ticket1130, Dec30, "PENDING")}

WindowRechargeShapes ==
    {Recharge("A", Recharge0900), Recharge("A", Recharge1030), Recharge("B", Recharge0900)}

InitWindow ==
    /\ tz \in HostOffsets
    /\ ValidatorSnapshot(WindowTicketShapes, WindowRechargeShapes)

SpecWindow == InitWindow /\ [][Next]_vars

\* the case of C23: the owner has exactly the recharges r1 before r2 and
\* exactly the tickets t1 before t2, both tickets after both recharges, none
\* with an upstream status, and the four map to the draw date the tickets
\* declare
TwoRechargesTwoTickets(r1, r2, t1, t2) ==
    /\ entries[t1].gameId # ""
    /\ TicketsOf(entries[t1].gameId) = {t1, t2}
    /\ RechargesOf(entries[t1].gameId) = {r1, r2}
    /\ NoUpstreamStatus(entries[t1]) /\ NoUpstreamStatus(entries[t2])
    /\ recharges[r1].rechargeTime < recharges[r2].rechargeTime
    /\ recharges[r2].rechargeTime < entries[t1].parsedDate
    /\ entries[t1].parsedDate < entries[t2].parsedDate
    /\ \A window \in {EligibleDrawStr(recharges[r1].rechargeTime)} :
            /\ EligibleDrawStr(recharges[r2].rechargeTime) = window
            /\ EligibleDrawStr(entries[t1].parsedDate) = window
            /\ EligibleDrawStr(entries[t2].parsedDate) = window
            /\ NormalizeDrawDate(entries[t1].drawDate) = window
            /\ NormalizeDrawDate(entries[t2].drawDate) = window

\* the matcher's claim detection says "used" for the candidate
TreatedAsConsumed(ticket, recharge, ts) ==
    /\ Len(PriorTickets(ticket, recharge, ts)) > 0
    /\ RechargeUsed(PriorTickets(ticket, recharge, ts), 1,
                    EligibleDrawStr(recharge.rechargeTime)) = "used"

\* C23: a candidate recharge is treated as consumed exactly when another
\* ticket of the owner, registered strictly between the recharge and the
\* ticket, maps to the recharge's eligible draw date, whichever recharge that
\* ticket matched; so with recharges R1 < R2 and tickets t1 < t2 after both,
\* all in one draw window, t1 is matched to R2, t2 is INVALID without a
\* match, and no ticket is matched to R1.
C23_ConsumedWithoutCheckingTheMatch ==
    /\ \A k \in 1..Len(entries), j \in 1..Len(recharges) :
            (/\ entries[k].gameId # ""
             /\ recharges[j].gameId = entries[k].gameId
             /\ IsValidDate(entries[k].parsedDate)
             /\ IsValidDate(recharges[j].rechargeTime)
             /\ recharges[j].rechargeTime < entries[k].parsedDate)
            => (TreatedAsConsumed(entries[k], recharges[j],
                                  ByGameId(entries, entries[k].gameId))
                <=> ClaimedByPrior(entries[k], recharges[j],
                                   ByGameId(entries, entries[k].gameId)))
    /\ Done =>
            \A r1, r2 \in 1..Len(recharges), t1, t2 \in 1..Len(entries) :
                TwoRechargesTwoTickets(r1, r2, t1, t2) =>
                    /\ Outcome(t1).status = ValidationStatus.VALID
                    /\ Outcome(t1).matchedRecharge = recharges[r2]
                    /\ Outcome(t2).status = ValidationStatus.INVALID
                    /\ Outcome(t2).matchedRecharge = NoRecharge
                    /\ \A k \in 1..Len(vrun.results) :
                            Outcome(k).matchedRecharge # recharges[r1]

\* the validation has finished on two recharges and two later tickets of
\* one owner in one draw window
C23_Witness ==
    /\ Done
    /\ \E r1, r2 \in 1..Len(recharges), t1, t2 \in 1..Len(entries) :
            /\ TwoRechargesTwoTickets(r1, r2, t1, t2)
            /\ Outcome(t2).status = ValidationStatus.INVALID

-----------------------------------------------------------------------------
(* Claims about the batch loops                                            *)

\* a validation and calculations of winners, with their timers
NextTimers ==
    \/ VCall(platform # "ALL")
    \/ VResume
    \/ WCall(platform)
    \/ WResume

\* A 5 ms timer that was set fires: weak fairness of the two resumptions.
\* A resumption is enabled exactly while its run is suspended (the timer is
\* set at the yield and nothing clears it), so WF_vars(VResume) is written
\* with vrun.pc = "yield" in the place of ENABLED <<VResume>>_vars, and
\* WF_vars(WResume) likewise.
SpecTimers ==
    /\ InitDashboard
    /\ [][NextTimers]_vars
    /\ ([]<>(vrun.pc # "yield") \/ []<><<VResume>>_vars)
    /\ ([]<>(wrun.pc # "yield") \/ []<><<WResume>>_vars)

\* a suspended validation stands between two batches: some tickets are
\* done, in order, and some are left
BetweenTicketBatches(run) ==
    run.pc = "yield" =>
        /\ 0 < run.i /\ run.i < Len(entries)
        /\ run.i % batchSize = 0
        /\ Len(run.results) = run.i
        /\ \A k \in 1..run.i : run.results[k].ticket = entries[k]

\* a finished validation has taken every ticket once, in order
EveryTicketOnce(run) ==
    run.pc = "done" =>
        /\ Len(run.results) = Len(entries)
        /\ \A k \in 1..Len(entries) : run.results[k].ticket = entries[k]

\* a suspended calculation stands between two batches of contests
BetweenContestBatches ==
    wrun.pc = "yield" =>
        /\ 0 < wrun.i /\ wrun.i < Len(wrun.contestKeys)
        /\ wrun.i % winnersBatchSize = 0
        /\ Len(wrun.contestResults) = wrun.i
        /\ \A c \in 1..wrun.i : wrun.contestResults[c].contest = wrun.contestKeys[c]

\* a finished calculation has taken every contest once
EveryContestOnce ==
    WinnersDone =>
        \A keys \in {ContestKeys(filterByPlatform(entries, wrun.platform), results)} :
            /\ Len(wrun.contestResults) = Len(keys)
            /\ \A c \in 1..Len(keys) :
                    Cardinality({d \in 1..Len(wrun.contestResults) :
                                    wrun.contestResults[d].contest = keys[c]}) = 1

\* the resumption of a suspended run is defined and takes the run further
ResumptionAdvances ==
    /\ \A run \in {vrun, vother} :
            run.pc = "yield" =>
                \A next \in {BatchTurn(run)} :
                    next.pc \in {"yield", "done"} /\ next.i > run.i
    /\ wrun.pc = "yield" =>
            \A next \in {WinnersTurn(wrun)} :
                next.pc \in {"yield", "done"} /\ next.i > wrun.i

\* a suspended run is only ever continued: nothing takes it back or drops
\* what it has done
NoCancellation ==
    /\ vrun.pc = "yield" =>
            /\ vrun'.pc \in {"yield", "done"}
            /\ SubSeq(vrun'.results, 1, Len(vrun.results)) = vrun.results
    /\ vother.pc = "yield" =>
            /\ vother'.pc \in {"yield", "done"}
            /\ SubSeq(vother'.results, 1, Len(vother.results)) = vother.results
    /\ wrun.pc = "yield" =>
            /\ wrun'.pc \in {"yield", "done"}
            /\ wrun'.i >= wrun.i
            /\ wrun'.contestKeys = wrun.contestKeys

\* C24: once started, validateAllTickets and calculateAllWinners run to
\* completion: with the yield timers firing, a suspended run finishes; a run
\* is suspended only between two batches, never after the last; nothing
\* cancels a suspended run; a finished run has taken every ticket, or every
\* contest, exactly once.
C24_RunsToCompletion ==
    /\ [](/\ BetweenTicketBatches(vrun)
          /\ BetweenTicketBatches(vother)
          /\ BetweenContestBatches
          /\ EveryTicketOnce(vrun)
          /\ EveryTicketOnce(vother)
          /\ EveryContestOnce
          /\ ResumptionAdvances)
    /\ [][NoCancellation]_vars
    /\ (vrun.pc = "yield" ~> vrun.pc = "done")
    /\ (wrun.pc = "yield" ~> wrun.pc = "done")

\* a validation of two tickets and a calculation over two contests have
\* both finished, each after a yield
C24_Witness ==
    /\ Done
    /\ Len(vrun.results) = 2
    /\ WinnersDone
    /\ ~wrun.fromCache
    /\ Len(wrun.contestResults) = 2

-----------------------------------------------------------------------------
(* Claims about the draw window of a validated ticket                      *)

\* C25: whenever validateTicket returns VALID with a matched recharge, the
\* ticket's normalized draw date is the eligible draw date of the ticket's
\* own registration time; a ticket registered at or after the cutoff hour is
\* never validated for that same day's draw.
C25_ValidTicketInOwnWindow ==
    Done =>
        \A k \in 1..Len(vrun.results) :
            MatchedValid(k) =>
                NormalizeDrawDate(Outcome(k).ticket.drawDate)
                    = EligibleDrawStr(Outcome(k).ticket.parsedDate)

-----------------------------------------------------------------------------
(* The page: loadAllData runs, platform changes and refreshes              *)

RECURSIVE ValidateBatchOf(_, _, _, _)
\* the inner loop of validateAllTickets on its own argument es, from ticket
\* k to ticket last
ValidateBatchOf(run, es, k, last) ==
    IF k > last THEN run
    ELSE The({
            IF validation.status = "THROWN" THEN [run EXCEPT !.pc = "threw"]
            ELSE ValidateBatchOf([run EXCEPT !.results = Append(@, validation),
                                             !.stats = CountOutcome(@, validation)],
                                 es, k + 1, last)
         : validation \in {validateTicket(es[k], recharges, es)}})

\* one turn of the outer loop of the invocation run on run.entries: the
\* batch, then the yield or the end
BatchTurnOf(run) ==
    The({
        IF after.pc = "threw" THEN after
        ELSE IF run.i + batchSize < Len(run.entries)
             THEN [after EXCEPT !.pc = "yield", !.i = run.i + batchSize]
             ELSE [after EXCEPT !.pc = "done", !.i = Len(run.entries)]
     : after \in {ValidateBatchOf(run, run.entries, run.i + 1,
                    IF run.i + batchSize < Len(run.entries)
                    THEN run.i + batchSize ELSE Len(run.entries))}})

\* the cache check of validateAllTickets (lines 1247-1253) for the argument
\* es: "hit", "miss", or "threw" when the cached object has no stats
\* (cached.stats.total on the counts of getAccurateValidationCounts)
CacheCheck(c, es, skipCache) ==
    IF skipCache \/ ~HasCachedValidation(c) THEN "miss"
    ELSE IF "stats" \notin DOMAIN c.validation.data THEN "threw"
    ELSE IF /\ c.validation.data.stats.total = Len(es)
            /\ "entriesCount" \in DOMAIN c.validation.data
            /\ c.validation.data.entriesCount = Len(es)
         THEN "hit"
    ELSE "miss"

\* validateAllTickets(es, allRecharges, skipCache) called by loadAllData for
\* platform p, up to its first await or its end
StartLoad(c, p, es, skipCache) ==
    The({
        CASE check = "threw" -> [start EXCEPT !.pc = "threw"]
          [] check = "hit" -> [start EXCEPT !.pc = "done", !.fromCache = TRUE,
                                            !.results = c.validation.data.results,
                                            !.stats = c.validation.data.stats]
          [] OTHER -> BatchTurnOf(start)
     : check \in {CacheCheck(c, es, skipCache)},
       start \in {[pc |-> "run", i |-> 0, results |-> <<>>,
                   stats |-> [ZeroStats EXCEPT !.total = Len(es)],
                   skipCache |-> skipCache, fromCache |-> FALSE,
                   entries |-> es, platform |-> p]}})

\* line 767: the value the await delivers is stored; a run that is suspended
\* or has thrown (caught at line 777) stores nothing
CurrentDataAfter(cd, run) ==
    IF run.pc = "done"
    THEN [cd EXCEPT !.validationResults = ValidationResult(run)]
    ELSE cd

\* DataStore.performValidation through validateEntry, for a ticket of the
\* store; the recharges of the model carry an amount of at least
\* MIN_RECHARGE_AMOUNT
performValidation(entry) ==
    IF entry.ticketNumber = "" THEN "UNKNOWN"
    ELSE IF entry.gameId = "" THEN "INVALID"
    ELSE IF ~\E j \in 1..Len(recharges) : recharges[j].gameId = entry.gameId THEN "INVALID"
    ELSE IF ~IsValidDate(entry.parsedDate) THEN "INVALID"
    ELSE IF \E j \in 1..Len(recharges) :
                /\ recharges[j].gameId = entry.gameId
                /\ IsValidDate(recharges[j].rechargeTime)
                /\ recharges[j].rechargeTime <= entry.parsedDate
         THEN "VALID"
    ELSE "INVALID"

\* the object getAccurateValidationCounts computes over state.entries
AccurateCounts ==
    [valid |-> Cardinality({k \in 1..Len(entries) : performValidation(entries[k]) = "VALID"}),
     invalid |-> Cardinality({k \in 1..Len(entries) :
                                performValidation(entries[k]) = "INVALID"}),
     unknown |-> Cardinality({k \in 1..Len(entries) :
                                performValidation(entries[k]) = "UNKNOWN"})]

\* DataStore.getAccurateValidationCounts(): the cached object when there is
\* one, else the counts, which it stores in the validation cache; the store
\* holds fewer entries than its batch of 100, so it does not yield
getAccurateValidationCounts ==
    /\ ~HasCachedValidation(cache)
    /\ cache' = setCachedValidation(cache, AccurateCounts)
    /\ UNCHANGED <<tz, entries, recharges, results, platform, vrun, wrun, score, vother,
                   cachedFrom, draw, currentData, query>>

\* the fetcher's cache once the store holds sheet
CacheHolding(c, sheet) == [c EXCEPT !.entries = [has |-> TRUE, data |-> sheet]]

\* an event reaches the page and starts loadAllData: a platform change to p
\* (sheet is the list the store holds) or a refresh that has fetched sheet.
\* The run takes the platform's entries into currentData and validates them.
loadAllData(p, sheet) ==
    /\ vrun.pc \in {"idle", "done", "threw"}
    /\ platform' = p
    /\ entries' = sheet
    /\ \E next \in {StartLoad(CacheHolding(cache, sheet), p,
                              filterByPlatform(sheet, p), p # "ALL")} :
            /\ vrun' = next
            /\ cache' = CacheAfter(CacheHolding(cache, sheet), next)
            /\ currentData' =
                    CurrentDataAfter([currentData EXCEPT !.entries = next.entries], next)
    /\ UNCHANGED <<tz, recharges, results, wrun, score, vother, cachedFrom, draw,
                   query>>

\* the timer of the run's yield fires; at its end the run stores its result
loadResume ==
    /\ vrun.pc = "yield"
    /\ \E next \in {BatchTurnOf(vrun)} :
            /\ vrun' = next
            /\ cache' = CacheAfter(cache, next)
            /\ currentData' = CurrentDataAfter(currentData, next)
    /\ UNCHANGED <<tz, entries, recharges, results, platform, wrun, score, vother,
                   cachedFrom, draw, query>>

\* an event starts another loadAllData while the first run is suspended
loadAllDataOther(p, sheet) ==
    /\ vrun.pc = "yield"
    /\ vother.pc \in {"idle", "done", "threw"}
    /\ platform' = p
    /\ entries' = sheet
    /\ \E next \in {StartLoad(CacheHolding(cache, sheet), p,
                              filterByPlatform(sheet, p), p # "ALL")} :
            /\ vother' = next
            /\ cache' = CacheAfter(CacheHolding(cache, sheet), next)
            /\ currentData' =
                    CurrentDataAfter([currentData EXCEPT !.entries = next.entries], next)
    /\ UNCHANGED <<tz, recharges, results, wrun, score, vrun, cachedFrom, draw, query>>

loadOtherResume ==
    /\ vother.pc = "yield"
    /\ \E next \in {BatchTurnOf(vother)} :
            /\ vother' = next
            /\ cache' = CacheAfter(cache, next)
            /\ currentData' = CurrentDataAfter(currentData, next)
    /\ UNCHANGED <<tz, entries, recharges, results, platform, wrun, score, vrun,
                   cachedFrom, draw, query>>

PagePlatforms == {"ALL", "POPN1", "POPLUZ"}

\* rows of the entries sheet, of two platforms
PageRowShapes ==
    {[Entry("A", Ticket1130, Dec30, "PENDING") EXCEPT !.platform = "POPLUZ"],
     [Entry("A", Ticket1000, Dec30, "PENDING") EXCEPT !.platform = "POPN1"],
     [Entry("B", Ticket1000, Dec30, "PENDING") EXCEPT !.platform = "POPN1"]}

\* fetchEntries sorts the rows by timestamp, the latest first (line 1743)
LatestFirst(rows) ==
    \A i \in 1..Len(rows) - 1 : rows[i].parsedDate >= rows[i + 1].parsedDate

\* what fetchEntries delivers; the ticket number belongs to the row
PageSheets ==
    {NumberedEntries(rows) :
        rows \in {r \in SeqsUpTo(PageRowShapes, MaxTickets) : LatestFirst(r)}}

\* the store has loaded a sheet and the recharges; the page has not run yet
InitPage ==
    /\ tz = 0
    /\ entries \in PageSheets
    /\ recharges \in {<<>>, NumberedRecharges(<<Recharge("A", Recharge0900)>>)}
    /\ results = <<>>
    /\ platform = "ALL"
    /\ cache = CacheHolding(EmptyCache, entries)
    /\ vrun = IdleRun
    /\ wrun = IdleWinners
    /\ score = NoScore
    /\ AtRest

NextPage ==
    \/ \E p \in PagePlatforms : loadAllData(p, entries)
    \/ \E sheet \in PageSheets : loadAllData(platform, sheet)
    \/ loadResume
    \/ \E p \in PagePlatforms : loadAllDataOther(p, entries)
    \/ \E sheet \in PageSheets : loadAllDataOther(platform, sheet)
    \/ loadOtherResume
    \/ getAccurateValidationCounts

SpecPage == InitPage /\ [][NextPage]_vars

-----------------------------------------------------------------------------
(* Claims about the validation cache and the page's results                *)

\* the value validateAllTickets computes for the list es
ValidationOf(es) ==
    ValidationResult(
        ValidateBatchOf([IdleRun EXCEPT !.stats = [ZeroStats EXCEPT !.total = Len(es)]],
                        es, 1, Len(es)))

\* C26: whenever getCachedValidation returns a value, that value is the
\* validateAllTickets result computed from the entries the fetcher holds.
C26_CachedValidationIsOfHeldEntries ==
    HasCachedValidation(cache) =>
        cache.validation.data = ValidationOf(cache.entries.data)

\* every loadAllData run that was started has completed, and one has
AllLoadsCompleted ==
    /\ vrun.pc \in {"idle", "done"}
    /\ vother.pc \in {"idle", "done"}
    /\ vrun.pc = "done" \/ vother.pc = "done"

\* C29: once the overlapping loadAllData runs have all completed,
\* currentData.validationResults is the validation of currentData.entries,
\* the entries of the selected platform; an earlier, slower run does not
\* overwrite the results of a later one.
C29_LatestLoadWins ==
    AllLoadsCompleted =>
        /\ currentData.entries = filterByPlatform(entries, platform)
        /\ currentData.validationResults = ValidationOf(currentData.entries)

-----------------------------------------------------------------------------
(* Claims about winners and tiers                                          *)

\* a winner of a contest is in the contest's bucket of its own match count
InOwnBucket(contestWinners, w) ==
    /\ w.matches \in DOMAIN contestWinners.byTier
    /\ includes(contestWinners.byTier[w.matches], w)

\* C27: in the output of calculateAllWinners every winner of a contest is in
\* byTier at its own match count, stats.totalWinners is
\* stats.byTier[3] + stats.byTier[4] + stats.byTier[5], and no winner has more
\* than 5 matches
C27_WinnersAreInTheirTier ==
    WinnersDone =>
        /\ \A c \in 1..Len(wrun.contestResults) :
                \A k \in 1..Len(wrun.contestResults[c].winners) :
                    InOwnBucket(wrun.contestResults[c], wrun.contestResults[c].winners[k])
        /\ wrun.stats.totalWinners =
                wrun.stats.byTier[3] + wrun.stats.byTier[4] + wrun.stats.byTier[5]
        /\ \A k \in 1..Len(wrun.allWinners) : wrun.allWinners[k].matches <= 5

-----------------------------------------------------------------------------
(* WinnerCalculator: the queries of the winners                            *)

\* the default of getTopWinners' limit
DefaultLimit == 10

\* Array.prototype.slice(0, limit)
SliceTo(s, limit) == SubSeq(s, 1, IF Len(s) < limit THEN Len(s) ELSE limit)

\* sort by matches descending; the sort is stable
ByMatches(ws) == SortDescending(ws, [i \in 1..Len(ws) |-> ws[i].matches])

\* sort by parsedDate.getTime() descending (the entries of the model have a date)
ByDate(ws) == SortDescending(ws, [i \in 1..Len(ws) |-> ws[i].parsedDate])

\* the comparator of getTopWinners: matches descending, then date descending
TopWinnersOrder(ws) == ByMatches(ByDate(ws))

\* the lines of calculateAllWinners up to its first await or its return
CallWinners(p) ==
    IF UsesCachedWinners(cache, p) THEN FromCachedWinners(cache, p)
    ELSE WinnersTurn(StartWinners(p))

\* winRate: (totalWinners / count * 100).toFixed(2), as hundredths of a
\* percent rounded to nearest; the number 0 when there is no entry
WinRate(totalWinners, count) ==
    IF count > 0
    THEN [text |-> TRUE, hundredths |-> (2 * 10000 * totalWinners + count) \div (2 * count)]
    ELSE [text |-> FALSE, hundredths |-> 0]

\* the entry count of getWinnerStats (lines 345-348)
FilteredEntriesCount(p) ==
    IF p # "" /\ p # "ALL" THEN Len(filterByPlatform(entries, p)) ELSE Len(entries)

\* calculation.allWinners after the query's own code: Array.prototype.sort
\* sorts the array it is called on
allWinners(op, ws) == IF op = "getTopWinners" THEN TopWinnersOrder(ws) ELSE ws

\* the invocation that resolved, its allWinners being the array the query
\* was handed
AliasedRun(op, run) ==
    IF run.pc = "done" THEN [run EXCEPT !.allWinners = allWinners(op, @)] ELSE run

\* the cached result is the object calculateAllWinners returned (lines 219
\* and 320-327), so its allWinners is the same array
AliasedCache(op, c, run) ==
    IF run.pc = "done" /\ c.winners.has
    THEN [c EXCEPT !.winners.data.allWinners = allWinners(op, @)]
    ELSE c

\* what the query returns once calculateAllWinners has resolved
QueryReturn(op, p, run) ==
    IF op = "getTopWinners"
    THEN [pc |-> "returned", op |-> op, platform |-> p,
          top |-> SliceTo(allWinners(op, run.allWinners), DefaultLimit)]
    ELSE [pc |-> "returned", op |-> op, platform |-> p,
          stats |-> run.stats,
          winRate |-> WinRate(run.stats.totalWinners, FilteredEntriesCount(p))]

QueryAfter(op, p, run) ==
    IF run.pc = "done" THEN QueryReturn(op, p, run)
    ELSE [pc |-> "awaiting", op |-> op, platform |-> p]

\* the query op over platform p goes on with the invocation next
Settle(op, p, next) ==
    /\ wrun' = AliasedRun(op, next)
    /\ cache' = AliasedCache(op, WinnersCacheAfter(cache, next), next)
    /\ cachedFrom' = CachedFromAfter(next)
    /\ query' = QueryAfter(op, p, next)

\* getTopWinners(entries, results): up to the await that suspends it, or to
\* its return
getTopWinners ==
    /\ wrun.pc \in {"idle", "done"}
    /\ query.pc # "awaiting"
    /\ platform' = "ALL"
    /\ \E next \in {CallWinners("ALL")} : Settle("getTopWinners", "ALL", next)
    /\ UNCHANGED <<tz, entries, recharges, results, vrun, score, vother, draw,
                   currentData>>

\* getWinnerStats(entries, results, p)
getWinnerStats(p) ==
    /\ wrun.pc \in {"idle", "done"}
    /\ query.pc # "awaiting"
    /\ platform' = p
    /\ \E next \in {CallWinners(p)} : Settle("getWinnerStats", p, next)
    /\ UNCHANGED <<tz, entries, recharges, results, vrun, score, vother, draw,
                   currentData>>

\* the 5 ms timer of the awaited calculateAllWinners fires; when the
\* invocation resolves the query runs to its return
QueryResume ==
    /\ query.pc = "awaiting"
    /\ wrun.pc = "yield"
    /\ \E next \in {WinnersTurn(wrun)} : Settle(query.op, query.platform, next)
    /\ UNCHANGED <<tz, entries, recharges, results, platform, vrun, score, vother,
                   draw, currentData>>

\* the gameIds of the winners that have one, in the order of the winners
PlayerIds(ws) ==
    FirstOccurrences(
        SelectSeq([i \in 1..Len(ws) |-> ws[i].gameId], LAMBDA g : g # ""))

\* Math.max over the matches of the wins
BestMatch(wins) ==
    IF wins = <<>> THEN 0
    ELSE CHOOSE m \in {wins[i].matches : i \in 1..Len(wins)} :
            \A i \in 1..Len(wins) : wins[i].matches <= m

\* playerWins[gameId] after the forEach
Player(ws, gameId) ==
    [gameId |-> gameId,
     totalWins |-> Len(SelectSeq(ws, LAMBDA w : w.gameId = gameId)),
     bestMatch |-> BestMatch(SelectSeq(ws, LAMBDA w : w.gameId = gameId)),
     wins |-> SelectSeq(ws, LAMBDA w : w.gameId = gameId)]

ByTotalWins(ps) == SortDescending(ps, [i \in 1..Len(ps) |-> ps[i].totalWins])
ByBestMatch(ps) == SortDescending(ps, [i \in 1..Len(ps) |-> ps[i].bestMatch])

\* Object.values(playerWins) sorted by bestMatch, then totalWins, descending
PlayersOf(ws) ==
    ByBestMatch(ByTotalWins([i \in 1..Len(PlayerIds(ws)) |-> Player(ws, PlayerIds(ws)[i])]))

\* groupWinnersByPlayer(calculation.allWinners), on a resolved calculation
groupWinnersByPlayer ==
    /\ wrun.pc = "done"
    /\ query.pc # "awaiting"
    /\ query' = [pc |-> "returned", op |-> "groupWinnersByPlayer",
                 platform |-> wrun.platform, players |-> PlayersOf(wrun.allWinners)]
    /\ UNCHANGED <<tz, entries, recharges, results, platform, cache, vrun, wrun, score,
                   vother, cachedFrom, draw, currentData>>

\* calculateAllWinners called by the page, and its timer, no query awaiting it
NextQueries ==
    \/ \E p \in Platforms : query.pc # "awaiting" /\ WCall(p)
    \/ query.pc # "awaiting" /\ WResume
    \/ getTopWinners
    \/ \E p \in Platforms : getWinnerStats(p)
    \/ QueryResume
    \/ groupWinnersByPlayer

SpecQueries == InitWinners /\ [][NextQueries]_vars

-----------------------------------------------------------------------------
(* Claims about the queries of the winners                                 *)

RECURSIVE RunToEnd(_)
\* the invocation run with all its timers fired
RunToEnd(run) == IF run.pc = "done" THEN run ELSE RunToEnd(WinnersTurn(run))

\* the value calculateAllWinners(entries, results, p) resolves to when it
\* computes it from the snapshot
FirstReturn(p) == WinnersResult(RunToEnd(WinnersTurn(StartWinners(p))))

\* C28: getTopWinners, getWinnerStats and groupWinnersByPlayer leave the
\* cached winners result unchanged: the value a further calculateAllWinners
\* takes from the cache equals, the order of allWinners included, the value
\* the first call on the snapshot returned.
C28_QueriesLeaveCachedWinners ==
    cache.winners.has => cache.winners.data = FirstReturn(cache.winners.data.platform)

-----------------------------------------------------------------------------
(* Validation and winners of one snapshot                                  *)

\* tickets of contest 10 with 5 and 4 matching numbers: by owner A an
\* undecided one, one the upstream marks invalid, one it marks rejected and
\* one it marks valid; an undecided one by owner B, who has no recharge
EligibilityTicketShapes ==
    {[Entry("A", Ticket1000, Dec30, "PENDING") EXCEPT !.numbers = Match5, !.contest = "10"],
     [Entry("B", Ticket1000, Dec30, "PENDING") EXCEPT !.numbers = Match5, !.contest = "10"],
     [Entry("A", Ticket1130, Dec30, "INVALID") EXCEPT !.numbers = Match5, !.contest = "10"],
     [Entry("A", Ticket1130, Dec30, "REJECTED") EXCEPT !.numbers = Match4, !.contest = "10"],
     [Entry("A", Ticket1130, Dec30, "VALID") EXCEPT !.numbers = Match4, !.contest = "10"]}

\* the fetchers hold the tickets, no recharge or one of 09:00 by owner A, and
\* the result of contest 10, a no-draw row or nothing, or the results of two
\* contests
InitEligibility ==
    /\ tz = 0
    /\ \E shapes \in SeqsUpTo(EligibilityTicketShapes, MaxTickets) :
            entries = NumberedEntries(shapes)
    /\ recharges \in {<<>>, NumberedRecharges(<<Recharge("A", Recharge0900)>>)}
    /\ results \in {<<>>, <<Result("10", Drawn, FALSE)>>, <<Result("10", <<>>, TRUE)>>,
                    <<Result("11", Drawn, FALSE), Result("10", Drawn, FALSE)>>}
    /\ platform \in Platforms
    /\ cache = [EmptyCache EXCEPT !.entries = [has |-> TRUE, data |-> entries]]
    /\ vrun = IdleRun
    /\ wrun = IdleWinners
    /\ score = NoScore
    /\ AtRest

SpecEligibility == InitEligibility /\ [][NextTimers]_vars

-----------------------------------------------------------------------------
(* Claims about the winners and the validator                              *)

\* the outcome validateAllTickets gave the ticket is VALID
ValidatedAsValid(ticketNumber) ==
    \E k \in 1..Len(vrun.results) :
        /\ Outcome(k).ticket.ticketNumber = ticketNumber
        /\ Outcome(k).status = ValidationStatus.VALID

\* C30 as stated: each ticket in allWinners has the outcome VALID in the
\* validateAllTickets result for the same snapshot.
C30_WinnersAreValidatedTickets ==
    (Done /\ WinnersDone) =>
        \A k \in 1..Len(wrun.allWinners) :
            ValidatedAsValid(wrun.allWinners[k].ticketNumber)

\* the entry is in the scope of the computation, its contest has a usable
\* result, it has at least 3 matches and its upstream status is not an
\* invalid one
EligibleByStatus(e) ==
    /\ InScope(e)
    /\ ~NoUsableRow(GroupKey(e))
    /\ ~HasInvalidStatus(e)
    /\ MatchCountOf(e, resultsMapGet(results, GroupKey(e)).numbers) >= 3

\* C30, amended: the tickets in allWinners are exactly the entries with a
\* usable result and at least 3 matches whose upstream status is not in the
\* invalid set, whatever outcome validateAllTickets gives them.
C30_WinnersAreNotMarkedInvalid ==
    (Done /\ WinnersDone) =>
        {wrun.allWinners[k].ticketNumber : k \in 1..Len(wrun.allWinners)}
            = {entries[i].ticketNumber :
                    i \in {j \in 1..Len(entries) : EligibleByStatus(entries[j])}}

\* a ticket wins that the validator classifies INVALID, and a ticket the
\* validator classifies VALID is barred by its upstream status
C30_Witness ==
    /\ Done
    /\ WinnersDone
    /\ \E k \in 1..Len(wrun.allWinners) :
            ~ValidatedAsValid(wrun.allWinners[k].ticketNumber)
    /\ \E i \in 1..Len(entries) :
            /\ ValidatedAsValid(entries[i].ticketNumber)
            /\ HasInvalidStatus(entries[i])

====
